---------------------------- MODULE Spec2Model ----------------------------
(***************************************************************************)
(* A model of the myredis server (src/server.cpp): the length-framed       *)
(* request codec, the tagged reply serializer, the command dispatch over   *)
(* the keyspace, the per-connection read/write handlers and the poll-      *)
(* driven event loop with its idle-connection timers.                      *)
(*                                                                         *)
(* Byte strings (std::string, Buffer) are sequences of integers 0..255.    *)
(* C++ indices are 0-based, sequence indices 1-based: cmd[1] in the source *)
(* is cmd[2] here.                                                         *)
(***************************************************************************)
EXTENDS Integers, Sequences, FiniteSets, TLC

(***************************************************************************)
(* Program constants.                                                      *)
(***************************************************************************)
k_max_msg == 33554432

k_max_args == 200000

k_idle_timeout_ms == 5000

ERR_UNKNOWN == 1

ERR_TOO_BIG == 2

ERR_BAD_TYP == 3

ERR_BAD_ARG == 4

TAG_NIL == 0

TAG_ERR == 1

TAG_STR == 2

TAG_INT == 3

TAG_DBL == 4

TAG_ARR == 5

T_INIT == 0

T_STR == 1

T_ZSET == 2

(***************************************************************************)
(* String literals of the source, as bytes.                                *)
(***************************************************************************)
S_get == <<103, 101, 116>>

S_set == <<115, 101, 116>>

S_del == <<100, 101, 108>>

S_keys == <<107, 101, 121, 115>>

S_zadd == <<122, 97, 100, 100>>

S_zrem == <<122, 114, 101, 109>>

S_zscore == <<122, 115, 99, 111, 114, 101>>

S_zquery == <<122, 113, 117, 101, 114, 121>>

MSG_not_a_string ==
    <<110, 111, 116, 32, 97, 32, 115, 116, 114, 105, 110, 103, 32, 118, 97,
      108, 117, 101>>

MSG_non_string_exists ==
    <<97, 32, 110, 111, 110, 45, 115, 116, 114, 105, 110, 103, 32, 118, 97,
      108, 117, 101, 32, 101, 120, 105, 115, 116, 115>>

MSG_expect_float == <<101, 120, 112, 101, 99, 116, 32, 102, 108, 111, 97, 116>>

MSG_expect_zset == <<101, 120, 112, 101, 99, 116, 32, 122, 115, 101, 116>>

MSG_expect_fp ==
    <<101, 120, 112, 101, 99, 116, 32, 102, 112, 32, 110, 117, 109, 98, 101,
      114>>

MSG_expect_int == <<101, 120, 112, 101, 99, 116, 32, 105, 110, 116>>

MSG_unknown ==
    <<117, 110, 107, 110, 111, 119, 110, 32, 99, 111, 109, 109, 97, 110, 100,
      46>>

MSG_too_big ==
    <<114, 101, 115, 112, 111, 110, 115, 101, 32, 116, 111, 111, 32, 98, 105,
      103, 46>>

(***************************************************************************)
(* Buffers and fixed-width integers.  All integers are little-endian, as   *)
(* memcpy lays them out on the hosts the server is built for.              *)
(***************************************************************************)
\* buf_append: insert at the back
buf_append(buf, data) == buf \o data

\* buf_consume: erase the first len bytes
buf_consume(buf, len) == SubSeq(buf, len + 1, Len(buf))

\* the 4 bytes of a uint32_t
u32_bytes(n) ==
    << n % 256, (n \div 256) % 256, (n \div 65536) % 256,
       (n \div 16777216) % 256 >>

\* memcpy of 4 bytes at 0-based offset pos into a uint32_t
u32_at(data, pos) ==
    data[pos + 1] + 256 * data[pos + 2] + 65536 * data[pos + 3]
        + 16777216 * data[pos + 4]

\* the 8 bytes of a non-negative int64_t below 2^31
i64_bytes(n) == u32_bytes(n) \o <<0, 0, 0, 0>>

buf_append_u8(buf, b) == Append(buf, b)

buf_append_u32(buf, n) == buf_append(buf, u32_bytes(n))

buf_append_i64(buf, n) == buf_append(buf, i64_bytes(n))

(***************************************************************************)
(* Doubles.  A double is <<class, v>>: class 0 a finite non-negative       *)
(* integer value v, class 1 +infinity, class 2 NaN.                        *)
(***************************************************************************)
DblFin(v) == <<0, v>>

DblInf == <<1, 0>>

DblNaN == <<2, 0>>

isnan(d) == d[1] = 2

RECURSIVE Log2(_)
Log2(n) == IF n <= 1 THEN 0 ELSE 1 + Log2(n \div 2)

RECURSIVE Pow2(_)
Pow2(e) == IF e = 0 THEN 1 ELSE 2 * Pow2(e - 1)

\* the high 32 bits of the IEEE-754 binary64 image (the low 32 are zero for
\* the integers below 2^21 the model uses)
dbl_high_word(d) ==
    IF d[1] = 1 THEN 2146435072
    ELSE IF d[1] = 2 THEN 2146959360
    ELSE IF d[2] = 0 THEN 0
    ELSE LET e == Log2(d[2])
         IN  (1023 + e) * 1048576 + (d[2] - Pow2(e)) * Pow2(20 - e)

dbl_bytes(d) == <<0, 0, 0, 0>> \o u32_bytes(dbl_high_word(d))

buf_append_dbl(buf, d) == buf_append(buf, dbl_bytes(d))

\* a < b on doubles (no NaN is ever stored)
dbl_lt(a, b) ==
    \/ a[1] = 0 /\ b[1] = 0 /\ a[2] < b[2]
    \/ a[1] = 0 /\ b[1] = 1

(***************************************************************************)
(* Reply serialization.                                                    *)
(***************************************************************************)
out_nil(out) == buf_append_u8(out, TAG_NIL)

out_str(out, s) ==
    buf_append(buf_append_u32(buf_append_u8(out, TAG_STR), Len(s)), s)

out_int(out, val) == buf_append_i64(buf_append_u8(out, TAG_INT), val)

out_dbl(out, val) == buf_append_dbl(buf_append_u8(out, TAG_DBL), val)

out_err(out, code, msg) ==
    buf_append(
        buf_append_u32(buf_append_u32(buf_append_u8(out, TAG_ERR), code),
                       Len(msg)),
        msg)

out_arr(out, n) == buf_append_u32(buf_append_u8(out, TAG_ARR), n)

\* returns the buffer and the `ctx` position (0-based) of the count
out_begin_arr(out) ==
    LET o == buf_append_u32(Append(out, TAG_ARR), 0)
    IN  [out |-> o, ctx |-> Len(o) - 4]

\* memcpy(&out[pos], &n, 4)
put_u32(out, pos, n) ==
    [i \in 1..Len(out) |->
        IF i > pos /\ i <= pos + 4 THEN u32_bytes(n)[i - pos] ELSE out[i]]

out_end_arr(out, ctx, n) == put_u32(out, ctx, n)

(***************************************************************************)
(* Request parsing.                                                        *)
(***************************************************************************)
\* read_u32 succeeds iff cur + 4 <= end
read_u32_ok(data, pos) == pos + 4 <= Len(data)

\* read_str succeeds iff cur + n <= end
read_str_ok(data, pos, n) == pos + n <= Len(data)

\* the loop of parse_req as it would be without the trailing-garbage test
RECURSIVE parse_args_lenient(_, _, _, _)
parse_args_lenient(data, pos, nstr, out) ==
    IF Len(out) < nstr
    THEN IF ~read_u32_ok(data, pos) THEN [rv |-> -1, out |-> out]
         ELSE LET len == u32_at(data, pos)
              IN  IF ~read_str_ok(data, pos + 4, len)
                  THEN [rv |-> -1, out |-> Append(out, << >>)]
                  ELSE parse_args_lenient(data, pos + 4 + len, nstr,
                           Append(out, SubSeq(data, pos + 5, pos + 4 + len)))
    ELSE [rv |-> 0, out |-> out]

\* the loop of parse_req: `out` grows until it holds nstr strings
RECURSIVE parse_args(_, _, _, _)
parse_args(data, pos, nstr, out) ==
    IF Len(out) < nstr
    THEN IF ~read_u32_ok(data, pos) THEN [rv |-> -1, out |-> out]
         ELSE LET len == u32_at(data, pos)
              IN  IF ~read_str_ok(data, pos + 4, len)
                  THEN [rv |-> -1, out |-> Append(out, << >>)]
                  ELSE parse_args(data, pos + 4 + len, nstr,
                           Append(out, SubSeq(data, pos + 5, pos + 4 + len)))
    ELSE IF pos # Len(data) THEN [rv |-> -1, out |-> out]
         ELSE [rv |-> 0, out |-> out]

parse_req(data) ==
    IF ~read_u32_ok(data, 0) THEN [rv |-> -1, out |-> << >>]
    ELSE LET nstr == u32_at(data, 0)
         IN  IF nstr > k_max_args THEN [rv |-> -1, out |-> << >>]
             ELSE parse_args(data, 4, nstr, << >>)

(***************************************************************************)
(* Number parsing.  strtod and strtoll are libc: the model gives their     *)
(* result on the byte strings the commands are fed, which are made of      *)
(* decimal digits, of a leading '-' (strtoll only), of "inf", of "nan",    *)
(* or start with a character that begins no number.  `n` is the number of  *)
(* characters consumed (endp - s.c_str()).                                 *)
(***************************************************************************)
IsDigit(b) == b >= 48 /\ b <= 57

\* s.c_str() as the C functions see it: the bytes before the first NUL
RECURSIVE c_str(_)
c_str(s) ==
    IF s = << >> \/ Head(s) = 0 THEN << >> ELSE <<Head(s)>> \o c_str(Tail(s))

RECURSIVE DigitsLen(_)
DigitsLen(s) ==
    IF s # << >> /\ IsDigit(Head(s)) THEN 1 + DigitsLen(Tail(s)) ELSE 0

RECURSIVE DigitsVal(_, _)
DigitsVal(s, acc) ==
    IF s # << >> /\ IsDigit(Head(s))
    THEN DigitsVal(Tail(s), 10 * acc + (Head(s) - 48))
    ELSE acc

HasPrefix(s, p) == Len(s) >= Len(p) /\ SubSeq(s, 1, Len(p)) = p

strtod(s) ==
    LET t == c_str(s)
    IN  IF HasPrefix(t, <<105, 110, 102>>) THEN [val |-> DblInf, n |-> 3]
        ELSE IF HasPrefix(t, <<110, 97, 110>>) THEN [val |-> DblNaN, n |-> 3]
        ELSE [val |-> DblFin(DigitsVal(t, 0)), n |-> DigitsLen(t)]

strtoll(s) ==
    LET t == c_str(s)
    IN  IF t # << >> /\ Head(t) = 45 /\ DigitsLen(Tail(t)) > 0
        THEN [val |-> 0 - DigitsVal(Tail(t), 0), n |-> 1 + DigitsLen(Tail(t))]
        ELSE [val |-> DigitsVal(t, 0), n |-> DigitsLen(t)]

\* endp == s.c_str() + s.size() && !isnan(out)
str2dbl(s) ==
    LET r == strtod(s)
    IN  [ok |-> r.n = Len(s) /\ ~isnan(r.val), val |-> r.val]

\* endp == s.c_str() + s.size()
str2int(s) ==
    LET r == strtoll(s)
    IN  [ok |-> r.n = Len(s), val |-> r.val]

(***************************************************************************)
(* The keyspace.  g_data.db maps key bytes to an Entry; a ZSet maps member *)
(* names to scores.  The hash table and the sorted set (hashtable.h,       *)
(* zset.h) are given by their contracts.                                   *)
(***************************************************************************)
k_empty_zset == << >>

entry_new(type) == [type |-> type, str |-> << >>, zset |-> k_empty_zset]

hm_lookup(db, key) == key \in DOMAIN db

hm_insert(db, key, ent) == (key :> ent) @@ db

hm_delete(db, key) == [k \in DOMAIN db \ {key} |-> db[k]]

hm_size(db) == Cardinality(DOMAIN db)

\* memcmp order on byte strings, the shorter first on a common prefix
RECURSIVE BytesLess(_, _)
BytesLess(a, b) ==
    IF b = << >> THEN FALSE
    ELSE IF a = << >> THEN TRUE
    ELSE IF Head(a) # Head(b) THEN Head(a) < Head(b)
    ELSE BytesLess(Tail(a), Tail(b))

RECURSIVE SortBytes(_)
SortBytes(S) ==
    IF S = {} THEN << >>
    ELSE LET m == CHOOSE x \in S : \A y \in S \ {x} : BytesLess(x, y)
         IN  <<m>> \o SortBytes(S \ {m})

\* hm_foreach visits every key once, in an order the table decides
hm_foreach(db) == SortBytes(DOMAIN db)

zset_lookup(zset, name) == name \in DOMAIN zset

zset_insert(zset, name, score) ==
    [zset |-> (name :> score) @@ zset, added |-> name \notin DOMAIN zset]

zset_delete(zset, name) == [k \in DOMAIN zset \ {name} |-> zset[k]]

\* (score, name) order of the tree index
zless(s1, n1, s2, n2) ==
    dbl_lt(s1, s2) \/ (s1 = s2 /\ BytesLess(n1, n2))

RECURSIVE zset_sorted(_)
zset_sorted(zset) ==
    IF DOMAIN zset = {} THEN << >>
    ELSE LET m == CHOOSE x \in DOMAIN zset :
                     \A y \in DOMAIN zset \ {x} :
                         zless(zset[x], x, zset[y], y)
         IN  <<m>> \o zset_sorted(zset_delete(zset, m))

\* a ZNode* is its rank in the tree index, 1..n; 0 is NULL
zset_seekge(zset, score, name) ==
    LET srt == zset_sorted(zset)
        ge == {i \in 1..Len(srt) : ~zless(zset[srt[i]], srt[i], score, name)}
    IN  IF ge = {} THEN 0 ELSE CHOOSE i \in ge : \A j \in ge : i <= j

znode_offset(zset, znode, offset) ==
    IF znode = 0 THEN 0
    ELSE IF znode + offset >= 1 /\ znode + offset <= Cardinality(DOMAIN zset)
         THEN znode + offset
         ELSE 0

(***************************************************************************)
(* Commands.  Each takes the keyspace, the argument vector and the output  *)
(* buffer and gives the keyspace and buffer it leaves; `ub` says that the  *)
(* call ran entry_del, whose end is reached without a return statement.    *)
(***************************************************************************)
Res(db, out) == [db |-> db, out |-> out, ub |-> FALSE]

do_get(db, cmd, out) ==
    IF ~hm_lookup(db, cmd[2]) THEN Res(db, out_nil(out))
    ELSE IF db[cmd[2]].type # T_STR
         THEN Res(db, out_err(out, ERR_BAD_TYP, MSG_not_a_string))
         ELSE Res(db, out_str(out, db[cmd[2]].str))

\* do_set as it would be without the overwrite of an existing value
do_set_keeps_old(db, cmd, out) ==
    IF hm_lookup(db, cmd[2])
    THEN IF db[cmd[2]].type # T_STR
         THEN Res(db, out_err(out, ERR_BAD_TYP, MSG_non_string_exists))
         ELSE Res(db, out_nil(out))
    ELSE Res(hm_insert(db, cmd[2], [entry_new(T_STR) EXCEPT !.str = cmd[3]]),
             out_nil(out))

do_set(db, cmd, out) ==
    IF hm_lookup(db, cmd[2])
    THEN IF db[cmd[2]].type # T_STR
         THEN Res(db, out_err(out, ERR_BAD_TYP, MSG_non_string_exists))
         ELSE Res([db EXCEPT ![cmd[2]].str = cmd[3]], out_nil(out))
    ELSE Res(hm_insert(db, cmd[2], [entry_new(T_STR) EXCEPT !.str = cmd[3]]),
             out_nil(out))

\* zset_clear on a ZSET, then delete; control then flows off the end of a
\* function declared to return Entry*
entry_del(ent) == TRUE

do_del(db, cmd, out) ==
    LET node == hm_lookup(db, cmd[2])
    IN  [db |-> hm_delete(db, cmd[2]),
         out |-> out_int(out, IF node THEN 1 ELSE 0),
         ub |-> node /\ entry_del(db[cmd[2]])]

RECURSIVE cb_keys(_, _)
cb_keys(keys, out) ==
    IF keys = << >> THEN out
    ELSE cb_keys(Tail(keys), out_str(out, Head(keys)))

do_keys(db, cmd, out) ==
    Res(db, cb_keys(hm_foreach(db), out_arr(out, hm_size(db))))

\* a do_zadd that makes a new ZSET even when the key holds one
do_zadd_always_new(db, cmd, out) ==
    LET score == str2dbl(cmd[3])
    IN  IF ~score.ok THEN Res(db, out_err(out, ERR_BAD_ARG, MSG_expect_float))
        ELSE IF hm_lookup(db, cmd[2]) /\ db[cmd[2]].type # T_ZSET
        THEN Res(db, out_err(out, ERR_BAD_TYP, MSG_expect_zset))
        ELSE LET db1 == hm_insert(db, cmd[2], entry_new(T_ZSET))
                 ins == zset_insert(db1[cmd[2]].zset, cmd[4], score.val)
             IN  Res([db1 EXCEPT ![cmd[2]].zset = ins.zset],
                     out_int(out, IF ins.added THEN 1 ELSE 0))

do_zadd(db, cmd, out) ==
    LET score == str2dbl(cmd[3])
    IN  IF ~score.ok THEN Res(db, out_err(out, ERR_BAD_ARG, MSG_expect_float))
        ELSE IF hm_lookup(db, cmd[2]) /\ db[cmd[2]].type # T_ZSET
        THEN Res(db, out_err(out, ERR_BAD_TYP, MSG_expect_zset))
        ELSE LET db1 == IF hm_lookup(db, cmd[2]) THEN db
                        ELSE hm_insert(db, cmd[2], entry_new(T_ZSET))
                 ins == zset_insert(db1[cmd[2]].zset, cmd[4], score.val)
             IN  Res([db1 EXCEPT ![cmd[2]].zset = ins.zset],
                     out_int(out, IF ins.added THEN 1 ELSE 0))

\* expect_zset as it would be without the type check
expect_zset_any_type(db, s) ==
    IF ~hm_lookup(db, s) THEN [null |-> FALSE, zset |-> k_empty_zset]
    ELSE [null |-> FALSE, zset |-> db[s].zset]

\* expect_zset without the sentinel: NULL for a missing key
expect_zset_null_on_missing(db, s) ==
    IF ~hm_lookup(db, s) THEN [null |-> TRUE, zset |-> k_empty_zset]
    ELSE IF db[s].type = T_ZSET THEN [null |-> FALSE, zset |-> db[s].zset]
    ELSE [null |-> TRUE, zset |-> k_empty_zset]

\* [null |-> TRUE] is NULL; a missing key gives the shared empty ZSet
expect_zset(db, s) ==
    IF ~hm_lookup(db, s) THEN [null |-> FALSE, zset |-> k_empty_zset]
    ELSE IF db[s].type = T_ZSET THEN [null |-> FALSE, zset |-> db[s].zset]
    ELSE [null |-> TRUE, zset |-> k_empty_zset]

\* zset_delete through the pointer expect_zset returned: the entry's ZSet
store_zset(db, key, zset) ==
    IF hm_lookup(db, key) THEN [db EXCEPT ![key].zset = zset] ELSE db

do_zrem(db, cmd, out) ==
    LET z == expect_zset(db, cmd[2])
    IN  IF z.null THEN Res(db, out_err(out, ERR_BAD_TYP, MSG_expect_zset))
        ELSE IF zset_lookup(z.zset, cmd[3])
        THEN Res(store_zset(db, cmd[2], zset_delete(z.zset, cmd[3])),
                 out_int(out, 1))
        ELSE Res(db, out_int(out, 0))

do_zscore(db, cmd, out) ==
    LET z == expect_zset(db, cmd[2])
    IN  IF z.null THEN Res(db, out_err(out, ERR_BAD_TYP, MSG_expect_zset))
        ELSE IF zset_lookup(z.zset, cmd[3])
        THEN Res(db, out_dbl(out, z.zset[cmd[3]]))
        ELSE Res(db, out_nil(out))

\* the output loop of do_zquery: n counts the values written so far
RECURSIVE zquery_emit(_, _, _, _, _)
zquery_emit(zset, znode, n, limit, out) ==
    IF znode # 0 /\ n < limit
    THEN LET name == zset_sorted(zset)[znode]
         IN  zquery_emit(zset, znode_offset(zset, znode, 1), n + 2, limit,
                         out_dbl(out_str(out, name), zset[name]))
    ELSE [out |-> out, n |-> n]

do_zquery(db, cmd, out) ==
    LET score == str2dbl(cmd[3])
        offset == str2int(cmd[5])
        limit == str2int(cmd[6])
        z == expect_zset(db, cmd[2])
    IN  IF ~score.ok THEN Res(db, out_err(out, ERR_BAD_ARG, MSG_expect_fp))
        ELSE IF ~offset.ok \/ ~limit.ok
        THEN Res(db, out_err(out, ERR_BAD_ARG, MSG_expect_int))
        ELSE IF z.null THEN Res(db, out_err(out, ERR_BAD_TYP, MSG_expect_zset))
        ELSE IF limit.val <= 0 THEN Res(db, out_arr(out, 0))
        ELSE LET znode == znode_offset(z.zset,
                              zset_seekge(z.zset, score.val, cmd[4]),
                              offset.val)
                 b == out_begin_arr(out)
                 e == zquery_emit(z.zset, znode, 0, limit.val, b.out)
             IN  Res(db, out_end_arr(e.out, b.ctx, e.n))

\* a do_request that takes `get` with any number of arguments from 2 up
do_request_get_min_arity(db, cmd, out) ==
    IF Len(cmd) >= 2 /\ cmd[1] = S_get THEN do_get(db, cmd, out)
    ELSE IF Len(cmd) = 3 /\ cmd[1] = S_set THEN do_set(db, cmd, out)
    ELSE IF Len(cmd) = 2 /\ cmd[1] = S_del THEN do_del(db, cmd, out)
    ELSE IF Len(cmd) = 1 /\ cmd[1] = S_keys THEN do_keys(db, cmd, out)
    ELSE IF Len(cmd) = 4 /\ cmd[1] = S_zadd THEN do_zadd(db, cmd, out)
    ELSE IF Len(cmd) = 3 /\ cmd[1] = S_zrem THEN do_zrem(db, cmd, out)
    ELSE IF Len(cmd) = 3 /\ cmd[1] = S_zscore THEN do_zscore(db, cmd, out)
    ELSE IF Len(cmd) = 6 /\ cmd[1] = S_zquery THEN do_zquery(db, cmd, out)
    ELSE Res(db, out_err(out, ERR_UNKNOWN, MSG_unknown))

do_request(db, cmd, out) ==
    IF Len(cmd) = 2 /\ cmd[1] = S_get THEN do_get(db, cmd, out)
    ELSE IF Len(cmd) = 3 /\ cmd[1] = S_set THEN do_set(db, cmd, out)
    ELSE IF Len(cmd) = 2 /\ cmd[1] = S_del THEN do_del(db, cmd, out)
    ELSE IF Len(cmd) = 1 /\ cmd[1] = S_keys THEN do_keys(db, cmd, out)
    ELSE IF Len(cmd) = 4 /\ cmd[1] = S_zadd THEN do_zadd(db, cmd, out)
    ELSE IF Len(cmd) = 3 /\ cmd[1] = S_zrem THEN do_zrem(db, cmd, out)
    ELSE IF Len(cmd) = 3 /\ cmd[1] = S_zscore THEN do_zscore(db, cmd, out)
    ELSE IF Len(cmd) = 6 /\ cmd[1] = S_zquery THEN do_zquery(db, cmd, out)
    ELSE Res(db, out_err(out, ERR_UNKNOWN, MSG_unknown))

(***************************************************************************)
(* Response framing and one request.                                       *)
(***************************************************************************)
\* returns the buffer with 4 reserved bytes and the header position
response_begin(out) == [out |-> buf_append_u32(out, 0), header |-> Len(out)]

response_size(out, header) == Len(out) - header - 4

\* a response_end that writes the error behind the reply it should drop
response_end_no_resize(out, header, max_msg) ==
    LET o == IF response_size(out, header) > max_msg
             THEN out_err(out, ERR_TOO_BIG, MSG_too_big)
             ELSE out
    IN  put_u32(o, header, response_size(o, header))

\* response_end with the limit it compares msg_size with as a parameter
response_end_at(out, header, max_msg) ==
    LET o == IF response_size(out, header) > max_msg
             THEN out_err(SubSeq(out, 1, header + 4), ERR_TOO_BIG, MSG_too_big)
             ELSE out
    IN  put_u32(o, header, response_size(o, header))

response_end(out, header) == response_end_at(out, header, k_max_msg)

(***************************************************************************)
(* Connections.  A Conn is a record of its fields; its idle_node is its    *)
(* place in g_data.idle_list.                                              *)
(***************************************************************************)
NULL == 0

\* new Conn() as handle_accept fills it in
conn_new(fd, now_ms) ==
    [fd |-> fd, want_read |-> TRUE, want_write |-> FALSE,
     want_close |-> FALSE, incoming |-> << >>, outgoing |-> << >>,
     last_active_ms |-> now_ms]

\* try_one_request as it would be if an ERR reply closed the connection
try_one_request_err_closes(c, d) ==
    IF Len(c.incoming) < 4
    THEN [conn |-> c, db |-> d, ret |-> FALSE, ub |-> FALSE, cmd |-> << >>]
    ELSE LET len == u32_at(c.incoming, 0)
         IN  IF len > k_max_msg
             THEN [conn |-> [c EXCEPT !.want_close = TRUE], db |-> d,
                   ret |-> FALSE, ub |-> FALSE, cmd |-> << >>]
             ELSE IF Len(c.incoming) < 4 + len
             THEN [conn |-> c, db |-> d, ret |-> FALSE, ub |-> FALSE,
                   cmd |-> << >>]
             ELSE LET p == parse_req(SubSeq(c.incoming, 5, 4 + len))
                  IN  IF p.rv < 0
                      THEN [conn |-> [c EXCEPT !.want_close = TRUE],
                            db |-> d, ret |-> FALSE, ub |-> FALSE,
                            cmd |-> << >>]
                      ELSE LET b == response_begin(c.outgoing)
                               r == do_request(d, p.out, b.out)
                               o == response_end(r.out, b.header)
                           IN  [conn |-> [c EXCEPT
                                    !.outgoing = o,
                                    !.incoming = buf_consume(@, 4 + len),
                                    !.want_close = o[b.header + 5] = TAG_ERR],
                                db |-> r.db, ret |-> TRUE, ub |-> r.ub,
                                cmd |-> p.out]

\* a try_one_request that removes the body and leaves the 4-byte header
try_one_request_keeps_header(c, d) ==
    IF Len(c.incoming) < 4
    THEN [conn |-> c, db |-> d, ret |-> FALSE, ub |-> FALSE, cmd |-> << >>]
    ELSE LET len == u32_at(c.incoming, 0)
         IN  IF len > k_max_msg
             THEN [conn |-> [c EXCEPT !.want_close = TRUE], db |-> d,
                   ret |-> FALSE, ub |-> FALSE, cmd |-> << >>]
             ELSE IF Len(c.incoming) < 4 + len
             THEN [conn |-> c, db |-> d, ret |-> FALSE, ub |-> FALSE,
                   cmd |-> << >>]
             ELSE LET p == parse_req(SubSeq(c.incoming, 5, 4 + len))
                  IN  IF p.rv < 0
                      THEN [conn |-> [c EXCEPT !.want_close = TRUE],
                            db |-> d, ret |-> FALSE, ub |-> FALSE,
                            cmd |-> << >>]
                      ELSE LET b == response_begin(c.outgoing)
                               r == do_request(d, p.out, b.out)
                               o == response_end(r.out, b.header)
                           IN  [conn |-> [c EXCEPT
                                    !.outgoing = o,
                                    !.incoming = buf_consume(@, len)],
                                db |-> r.db, ret |-> TRUE, ub |-> r.ub,
                                cmd |-> p.out]

\* process 1 request if there is enough data; `ret` is the return value,
\* `cmd` the parsed request when one was dispatched
try_one_request(c, d) ==
    IF Len(c.incoming) < 4
    THEN [conn |-> c, db |-> d, ret |-> FALSE, ub |-> FALSE, cmd |-> << >>]
    ELSE LET len == u32_at(c.incoming, 0)
         IN  IF len > k_max_msg
             THEN [conn |-> [c EXCEPT !.want_close = TRUE], db |-> d,
                   ret |-> FALSE, ub |-> FALSE, cmd |-> << >>]
             ELSE IF Len(c.incoming) < 4 + len
             THEN [conn |-> c, db |-> d, ret |-> FALSE, ub |-> FALSE,
                   cmd |-> << >>]
             ELSE LET p == parse_req(SubSeq(c.incoming, 5, 4 + len))
                  IN  IF p.rv < 0
                      THEN [conn |-> [c EXCEPT !.want_close = TRUE],
                            db |-> d, ret |-> FALSE, ub |-> FALSE,
                            cmd |-> << >>]
                      ELSE LET b == response_begin(c.outgoing)
                               r == do_request(d, p.out, b.out)
                               o == response_end(r.out, b.header)
                           IN  [conn |-> [c EXCEPT
                                    !.outgoing = o,
                                    !.incoming = buf_consume(@, 4 + len)],
                                db |-> r.db, ret |-> TRUE, ub |-> r.ub,
                                cmd |-> p.out]

\* the result of a read() or write(): rv, and errno when rv < 0
IoFail(errno) == [rv |-> -1, errno |-> errno, data |-> << >>]

IoDone(data) == [rv |-> Len(data), errno |-> "", data |-> data]

Min(a, b) == IF a < b THEN a ELSE b

\* write(fd, buf, size) on a socket whose kernel accepts w.rv bytes
sys_write(buf, w) ==
    IF w.rv < 0 THEN w ELSE IoDone(SubSeq(buf, 1, Min(w.rv, Len(buf))))

\* handle_write as it would be if a failed write() were passed over
handle_write_ignores_error(c, w) ==
    IF ~(Len(c.outgoing) > 0)
    THEN [conn |-> c, wrote |-> << >>, writes |-> << >>,
          assert |-> "outgoing.size() > 0"]
    ELSE LET r == sys_write(c.outgoing, w)
         IN  IF r.rv < 0
             THEN [conn |-> c, wrote |-> << >>, writes |-> <<w>>,
                   assert |-> ""]
             ELSE LET out == buf_consume(c.outgoing, r.rv)
                  IN  [conn |-> IF Len(out) = 0
                                THEN [c EXCEPT !.outgoing = out,
                                               !.want_read = TRUE,
                                               !.want_write = FALSE]
                                ELSE [c EXCEPT !.outgoing = out],
                       wrote |-> r.data, writes |-> <<w>>, assert |-> ""]

\* a handle_write that empties `outgoing` whatever write() took
handle_write_drops_rest(c, w) ==
    IF ~(Len(c.outgoing) > 0)
    THEN [conn |-> c, wrote |-> << >>, writes |-> << >>,
          assert |-> "outgoing.size() > 0"]
    ELSE LET r == sys_write(c.outgoing, w)
         IN  IF r.rv < 0 /\ r.errno = "EAGAIN"
             THEN [conn |-> c, wrote |-> << >>, writes |-> <<w>>,
                   assert |-> ""]
             ELSE IF r.rv < 0
             THEN [conn |-> [c EXCEPT !.want_close = TRUE],
                   wrote |-> << >>, writes |-> <<w>>, assert |-> ""]
             ELSE [conn |-> [c EXCEPT !.outgoing = << >>,
                                      !.want_read = TRUE,
                                      !.want_write = FALSE],
                   wrote |-> r.data, writes |-> <<w>>, assert |-> ""]

\* a handle_write that never gives the intent back to reading
handle_write_keeps_writing(c, w) ==
    IF ~(Len(c.outgoing) > 0)
    THEN [conn |-> c, wrote |-> << >>, writes |-> << >>,
          assert |-> "outgoing.size() > 0"]
    ELSE LET r == sys_write(c.outgoing, w)
         IN  IF r.rv < 0 /\ r.errno = "EAGAIN"
             THEN [conn |-> c, wrote |-> << >>, writes |-> <<w>>,
                   assert |-> ""]
             ELSE IF r.rv < 0
             THEN [conn |-> [c EXCEPT !.want_close = TRUE],
                   wrote |-> << >>, writes |-> <<w>>, assert |-> ""]
             ELSE [conn |-> [c EXCEPT !.outgoing = buf_consume(@, r.rv)],
                   wrote |-> r.data, writes |-> <<w>>, assert |-> ""]

\* application callback when the socket is writable; `wrote` is what went
\* to the socket, `writes` what write() returned when it was called,
\* `assert` the assertion that failed, if any
handle_write(c, w) ==
    IF ~(Len(c.outgoing) > 0)
    THEN [conn |-> c, wrote |-> << >>, writes |-> << >>,
          assert |-> "outgoing.size() > 0"]
    ELSE LET r == sys_write(c.outgoing, w)
         IN  IF r.rv < 0 /\ r.errno = "EAGAIN"
             THEN [conn |-> c, wrote |-> << >>, writes |-> <<w>>,
                   assert |-> ""]
             ELSE IF r.rv < 0
             THEN [conn |-> [c EXCEPT !.want_close = TRUE],
                   wrote |-> << >>, writes |-> <<w>>, assert |-> ""]
             ELSE LET out == buf_consume(c.outgoing, r.rv)
                  IN  [conn |-> IF Len(out) = 0
                                THEN [c EXCEPT !.outgoing = out,
                                               !.want_read = TRUE,
                                               !.want_write = FALSE]
                                ELSE [c EXCEPT !.outgoing = out],
                       wrote |-> r.data, writes |-> <<w>>, assert |-> ""]

\* one record per try_one_request call
CallRec(c, d, r) ==
    [cin |-> c, cout |-> r.conn, before |-> d, after |-> r.db,
     ret |-> r.ret, cmd |-> r.cmd]

RECURSIVE read_loop(_, _, _, _)

\* the loop's test on r, what try_one_request(conn) returned: go round
\* again, or leave
read_loop_test(c, d, ub, calls, r) ==
    IF r.ret
    THEN read_loop(r.conn, r.db, ub \/ r.ub, Append(calls, CallRec(c, d, r)))
    ELSE [conn |-> r.conn, db |-> r.db, ub |-> ub,
          calls |-> Append(calls, CallRec(c, d, r))]

\* a single try_one_request(conn) in place of the loop
read_loop_once(c, d, ub, calls) ==
    LET r == try_one_request(c, d)
    IN  [conn |-> r.conn, db |-> r.db, ub |-> ub \/ r.ub,
         calls |-> Append(calls, CallRec(c, d, r))]

\* while (try_one_request(conn)) {}
read_loop(c, d, ub, calls) ==
    read_loop_test(c, d, ub, calls, try_one_request(c, d))

\* an update of the intention that turns writing on and leaves reading on
update_readiness_keeps_read(l, w) ==
    IF Len(l.conn.outgoing) > 0
    THEN LET hw == handle_write([l.conn EXCEPT !.want_write = TRUE], w)
         IN  [conn |-> hw.conn, db |-> l.db, ub |-> l.ub,
              calls |-> l.calls, wrote |-> hw.wrote,
              writes |-> hw.writes, assert |-> hw.assert]
    ELSE [conn |-> l.conn, db |-> l.db, ub |-> l.ub,
          calls |-> l.calls, wrote |-> << >>, writes |-> << >>,
          assert |-> ""]

\* the end of handle_read, l being what the request loop left: update the
\* readiness intention, and write at once when there is a response
update_readiness(l, w) ==
    IF Len(l.conn.outgoing) > 0
    THEN LET hw == handle_write([l.conn EXCEPT !.want_read = FALSE,
                                               !.want_write = TRUE],
                                w)
         IN  [conn |-> hw.conn, db |-> l.db, ub |-> l.ub,
              calls |-> l.calls, wrote |-> hw.wrote,
              writes |-> hw.writes, assert |-> hw.assert]
    ELSE [conn |-> l.conn, db |-> l.db, ub |-> l.ub,
          calls |-> l.calls, wrote |-> << >>, writes |-> << >>,
          assert |-> ""]

\* application callback when the socket is readable; rd is what read()
\* returns, w what the write() of the optimistic flush would return
handle_read(c, d, rd, w) ==
    IF rd.rv < 0 /\ rd.errno = "EAGAIN"
    THEN [conn |-> c, db |-> d, ub |-> FALSE, calls |-> << >>,
          wrote |-> << >>, writes |-> << >>, assert |-> ""]
    ELSE IF rd.rv < 0 \/ rd.rv = 0
    THEN [conn |-> [c EXCEPT !.want_close = TRUE], db |-> d, ub |-> FALSE,
          calls |-> << >>, wrote |-> << >>, writes |-> << >>, assert |-> ""]
    ELSE update_readiness(
             read_loop([c EXCEPT !.incoming = buf_append(@, rd.data)],
                       d, FALSE, << >>),
             w)

(***************************************************************************)
(* The idle list (list.h), head first, and the timers.                     *)
(***************************************************************************)
dlist_empty(list) == list = << >>

\* insert before the list head: at the tail
dlist_insert_before(list, node) == Append(list, node)

dlist_detach(list, node) == SelectSeq(list, LAMBDA x : x # node)

\* the idle-timer update as it would be if it refreshed the timestamp and
\* left the node where it is
update_idle_timer_in_place(c, list, id, now_ms) ==
    [conn |-> [c EXCEPT !.last_active_ms = now_ms], idle_list |-> list]

\* an update that detaches the node and does not link it again
update_idle_timer_detach_only(c, list, id, now_ms) ==
    [conn |-> [c EXCEPT !.last_active_ms = now_ms],
     idle_list |-> dlist_detach(list, id)]

\* update the idle timer by moving conn to the end of the list
update_idle_timer(c, list, id, now_ms) ==
    [conn |-> [c EXCEPT !.last_active_ms = now_ms],
     idle_list |-> dlist_insert_before(dlist_detach(list, id), id)]

\* the poll timeout: -1 is none
next_timer_ms(list, conns, now_ms) ==
    IF dlist_empty(list) THEN -1
    ELSE LET next_ms == conns[list[1]].last_active_ms + k_idle_timeout_ms
         IN  IF next_ms <= now_ms THEN 0 ELSE next_ms - now_ms

(***************************************************************************)
(* State.                                                                  *)
(***************************************************************************)
VARIABLES
    db,         \* g_data.db: key bytes -> Entry
    crashed,    \* the process has left defined behaviour and stopped
    failed,     \* the assert() that aborted the process, "" if none
    last,       \* the latest do_request call made on its own: its
                \* arguments and its reply
    shadow,     \* history: key -> value of its latest successful `set`
                \* that no `del` of the key followed (and whether that
                \* `set` replaced an earlier one)
    now,        \* CLOCK_MONOTONIC in ms
    fd2conn,    \* g_data.fd2conn: index 0..size-1 -> Conn* (an id or NULL)
    conn,       \* the heap: id of a live Conn -> its fields
    idle_list,  \* g_data.idle_list, head first, as Conn ids
    next_id,    \* the id the next `new Conn()` gets
    pc,         \* where main's loop stands: "top", "poll", "accept", "conns"
    poll_args,  \* poll_args[1..]: the connections' pollfd entries
    listen_rev, \* poll_args[0].revents # 0
    pi,         \* the loop index i of the connection pass
    timeout_ms, \* the timeout handed to poll()
    poll_t0,    \* the clock when poll() was entered
    sock,       \* the kernel's side of each descriptor and its client
    backlog,    \* connections waiting in the listen queue
    served,     \* history: fd -> the requests dispatched on the connection
                \* and the response frame appended for each
    step        \* history: what the loop did last in this iteration, the
                \* connection it handled or the descriptors its timers
                \* closed

vars ==
    << db, crashed, failed, last, shadow, now, fd2conn, conn, idle_list,
       next_id, pc, poll_args, listen_rev, pi, timeout_ms, poll_t0, sock,
       backlog, served, step >>

dbvars == <<last, shadow>>

loopvars ==
    << now, fd2conn, conn, idle_list, next_id, pc, poll_args, listen_rev, pi,
       timeout_ms, poll_t0, sock, backlog, served, step, failed >>

(***************************************************************************)
(* Bounds and inputs.                                                      *)
(***************************************************************************)
NKeys == 2

NFds == 2

MaxConns == 2

MaxFrames == 1

MaxPipeline == 3

MaxProtoConns == 1

MaxProtoFrames == 2

TickMs == 2500

MaxNow == 7500

\* the largest limit argument of zquery in SpecZset
MaxLimit == 3

\* the limits, 0..MaxCut, response_end_at is tried with on each reply
MaxCut == 8

\* the requests the client of SpecFlush sends
MaxFlushFrames == 2

LISTEN_FD == 3

ConnFds == (LISTEN_FD + 1)..(LISTEN_FD + NFds)

Keys == {<<96 + i>> : i \in 1..NKeys}

Vals == {<<120>>, << >>}

Members == {<<109>>, <<110>>}

ScoreArgs == {<<49>>, <<50>>}

IntArgs == {<<48>>, <<49>>}

DbCmds ==
    {<<S_get, k>> : k \in Keys}
        \cup {<<S_set, k, v>> : k \in Keys, v \in Vals}
        \cup {<<S_del, k>> : k \in Keys}
        \cup {<<S_keys>>}
        \cup {<<S_zadd, k, s, m>> : k \in Keys, s \in ScoreArgs, m \in Members}
        \cup {<<S_zrem, k, m>> : k \in Keys, m \in Members}
        \cup {<<S_zscore, k, m>> : k \in Keys, m \in Members}
        \cup {<<S_zquery, k, s, << >>, o, l>> :
                 k \in Keys, s \in {<<49>>}, o \in {<<48>>}, l \in IntArgs}

\* the wire image of a request, as a client builds it
RECURSIVE ArgBytes(_)
ArgBytes(cmd) ==
    IF cmd = << >> THEN << >>
    ELSE u32_bytes(Len(Head(cmd))) \o Head(cmd) \o ArgBytes(Tail(cmd))

Body(cmd) == u32_bytes(Len(cmd)) \o ArgBytes(cmd)

FrameOf(body) == u32_bytes(Len(body)) \o body

Frame(cmd) == FrameOf(Body(cmd))

\* frames that break the protocol: a header above k_max_msg, an argument
\* count above k_max_args, a body that ends inside a declared argument,
\* a body that ends before a declared argument, bytes after the last
\* argument, a body too short for the count
BadHeader == u32_bytes(k_max_msg + 1)

BadFrames ==
    { BadHeader,
      FrameOf(u32_bytes(k_max_args + 1)),
      FrameOf(u32_bytes(1) \o u32_bytes(5) \o <<97>>),
      FrameOf(u32_bytes(2) \o u32_bytes(1) \o <<97>>),
      FrameOf(Body(<<S_keys>>) \o <<0>>),
      FrameOf(<<1, 0>>) }

A == <<97>>

X == <<120>>

\* the sorted-set commands of the command-level specification SpecZset:
\* key b is never written; scores "1", "2", "", "inf", "nan", "x"
B == <<98>>

S_inf == <<105, 110, 102>>

S_nan == <<110, 97, 110>>

ZScoreArgs == ScoreArgs \cup {<< >>, S_inf, S_nan, X}

LimitArgs == {<<48 + l>> : l \in 0..MaxLimit} \cup {X}

ZaddCmds == {<<S_zadd, A, s, m>> : s \in ZScoreArgs, m \in Members}

ZqueryCmds ==
    {<<S_zquery, k, s, n, o, l>> :
        k \in {A, B}, s \in {<<49>>, X}, n \in {<< >>, <<110>>},
        o \in IntArgs, l \in LimitArgs}

ZsetCmds ==
    ZaddCmds
        \cup {<<S_zrem, k, m>> : k \in {A, B}, m \in Members}
        \cup {<<S_zscore, k, m>> : k \in {A, B}, m \in Members}
        \cup ZqueryCmds
        \cup {<<S_keys>>}

\* argument vectors that match no (arity, name) pair of do_request
OddCmds ==
    { << >>, <<S_get>>, <<S_get, A, A>>, <<<<71, 69, 84>>, A>>,
      <<S_set, A>>, <<S_del>>, <<S_keys, A>>, <<S_zadd, A, <<49>>>>,
      <<S_zrem, A>>, <<S_zscore, A, <<109>>, <<109>>>>,
      <<S_zquery, A, <<49>>, << >>, <<48>>>>, <<<<102, 111, 111>>>>,
      <<<<90, 65, 68, 68>>, A, <<49>>, <<109>>>> }

\* the clients of the event-loop specification send one short request
EnvLoop ==
    [fds |-> ConnFds, max_conns |-> MaxConns,
     frames |-> {Frame(<<S_get, A>>)}, max_frames |-> MaxFrames,
     rsizes |-> {65536}, wsizes |-> {65536}]

\* the clients of the idle-timeout specification send nothing
EnvIdle ==
    [fds |-> ConnFds, max_conns |-> MaxConns,
     frames |-> {}, max_frames |-> 0,
     rsizes |-> {65536}, wsizes |-> {65536}]

\* the client of the connection-level specification pipelines requests
\* and the kernel hands them over split at any byte
ConnCmds == {<<S_set, A, X>>, <<S_get, A>>, <<X>>}

ConnFrames == {Frame(cmd) : cmd \in ConnCmds}

EnvConn ==
    [fds |-> {LISTEN_FD + 1}, max_conns |-> 1,
     frames |-> ConnFrames, max_frames |-> MaxPipeline,
     rsizes |-> {1, 65536}, wsizes |-> {3, 65536}]

\* the client of the protocol-level specification sends requests of every
\* kind: served, refused with each error code, and breaking the protocol
ProtoCmds ==
    { <<S_set, A, X>>, <<S_del, A>>, <<S_zscore, A, X>>, <<S_zadd, A, X, X>>,
      << >> }

ProtoFrames == {Frame(cmd) : cmd \in ProtoCmds} \cup BadFrames

EnvProto ==
    [fds |-> {LISTEN_FD + 1}, max_conns |-> MaxProtoConns,
     frames |-> ProtoFrames, max_frames |-> MaxProtoFrames,
     rsizes |-> {7, 65536}, wsizes |-> {65536}]

\* the client of the delivery specification sends `get a` requests; write()
\* takes 3 bytes or everything
EnvFlush ==
    [fds |-> {LISTEN_FD + 1}, max_conns |-> 1,
     frames |-> {Frame(<<S_get, A>>)}, max_frames |-> MaxFlushFrames,
     rsizes |-> {65536}, wsizes |-> {3, 65536}]

\* nothing handled yet in this iteration
NoStep ==
    [id |-> NULL, fd |-> 0, ready |-> {}, before |-> conn_new(0, 0),
     reads |-> << >>, writes |-> << >>, calls |-> << >>,
     want_close |-> FALSE, destroy |-> FALSE, reaped |-> {}]

NoCall == [cmd |-> << >>, before |-> << >>, out |-> << >>]

ClosedSock ==
    [open |-> FALSE, rx |-> << >>, tx |-> << >>, peer_closed |-> FALSE,
     sent |-> << >>]

Init ==
    /\ db = << >>
    /\ crashed = FALSE
    /\ failed = ""
    /\ last = NoCall
    /\ shadow = << >>
    /\ now = 0
    /\ fd2conn = << >>
    /\ conn = << >>
    /\ idle_list = << >>
    /\ next_id = 1
    /\ pc = "top"
    /\ poll_args = << >>
    /\ listen_rev = FALSE
    /\ pi = 1
    /\ timeout_ms = -1
    /\ poll_t0 = 0
    /\ sock = [fd \in ConnFds |-> ClosedSock]
    /\ backlog = 0
    /\ served = [fd \in ConnFds |-> << >>]
    /\ step = NoStep

Running == ~crashed /\ failed = ""

(***************************************************************************)
(* The command-level specification: do_request on argument vectors.        *)
(***************************************************************************)
\* history bookkeeping for one dispatched command and its reply body
shadow_after(sh, cmd, body) ==
    IF Len(cmd) = 3 /\ cmd[1] = S_set /\ body = <<TAG_NIL>>
    THEN (cmd[2] :> [val |-> cmd[3], over |-> cmd[2] \in DOMAIN sh]) @@ sh
    ELSE IF Len(cmd) = 2 /\ cmd[1] = S_del
    THEN [k \in DOMAIN sh \ {cmd[2]} |-> sh[k]]
    ELSE sh

\* do_request on an argument vector, as try_one_request calls it; a call
\* that leaves defined behaviour either goes on as if entry_del had
\* returned or stops the process before any reply is written
Request(cmd) ==
    /\ Running
    /\ LET r == do_request(db, cmd, << >>)
       IN  \E stop \in (IF r.ub THEN {FALSE, TRUE} ELSE {FALSE}) :
               /\ crashed' = stop
               /\ db' = r.db
               /\ last' = [cmd |-> cmd, before |-> db,
                           out |-> IF stop THEN << >> ELSE r.out]
               /\ shadow' = shadow_after(shadow, cmd, r.out)
    /\ UNCHANGED loopvars

NextDb == \E cmd \in DbCmds : Request(cmd)

SpecDb == Init /\ [][NextDb]_vars

\* the sorted-set commands and the unmatched vectors, one key written
NextZset == \E cmd \in ZsetCmds \cup OddCmds : Request(cmd)

SpecZset == Init /\ [][NextZset]_vars

(***************************************************************************)
(* The event loop.                                                         *)
(***************************************************************************)
\* the pollfd entries of the live connections, in fd2conn order
RECURSIVE build_poll_args(_, _, _)
build_poll_args(tbl, conns, i) ==
    IF i \notin DOMAIN tbl THEN << >>
    ELSE IF tbl[i] = NULL THEN build_poll_args(tbl, conns, i + 1)
    ELSE LET c == conns[tbl[i]]
         IN  << [fd |-> c.fd,
                 events |-> {"POLLERR"}
                     \cup (IF c.want_read THEN {"POLLIN"} ELSE {})
                     \cup (IF c.want_write THEN {"POLLOUT"} ELSE {}),
                 revents |-> {}] >>
                 \o build_poll_args(tbl, conns, i + 1)

\* top of the loop: build the pollset, compute the timeout, enter poll()
BeginPoll ==
    /\ Running
    /\ pc = "top"
    /\ poll_args' = build_poll_args(fd2conn, conn, 0)
    /\ timeout_ms' = next_timer_ms(idle_list, conn, now)
    /\ poll_t0' = now
    /\ listen_rev' = FALSE
    /\ step' = NoStep
    /\ pc' = "poll"
    /\ UNCHANGED << db, crashed, failed, dbvars, now, fd2conn, conn, idle_list,
                    next_id, pi, sock, backlog, served >>

\* poll() returns: with events (any of those asked for, and POLLERR), or
\* with none once the timeout has run out
PollReturn ==
    /\ Running
    /\ pc = "poll"
    /\ \E lrev \in (IF backlog > 0 THEN {FALSE, TRUE} ELSE {FALSE}) :
       \E revs \in [1..Len(poll_args) -> SUBSET {"POLLIN", "POLLOUT",
                                                 "POLLERR"}] :
           /\ \A i \in 1..Len(poll_args) : revs[i] \subseteq poll_args[i].events
           /\ \/ lrev
              \/ \E i \in 1..Len(poll_args) : revs[i] # {}
              \/ timeout_ms >= 0 /\ now >= poll_t0 + timeout_ms
           /\ listen_rev' = lrev
           /\ poll_args' =
                  [i \in 1..Len(poll_args) |->
                      [poll_args[i] EXCEPT !.revents = revs[i]]]
    /\ pc' = "accept"
    /\ UNCHANGED << db, crashed, failed, dbvars, now, fd2conn, conn, idle_list,
                    next_id, pi, timeout_ms, poll_t0, sock, backlog, served,
                    step >>

\* poll() fails with EINTR: continue
PollEINTR ==
    /\ Running
    /\ pc = "poll"
    /\ pc' = "top"
    /\ poll_args' = << >>
    /\ timeout_ms' = -1
    /\ poll_t0' = 0
    /\ UNCHANGED << db, crashed, failed, dbvars, now, fd2conn, conn, idle_list,
                    next_id, listen_rev, pi, sock, backlog, served, step >>

\* std::vector::resize: new slots are null
resize(tbl, n) ==
    [i \in 0..(n - 1) |-> IF i \in DOMAIN tbl THEN tbl[i] ELSE NULL]

tbl_size(tbl) == Cardinality(DOMAIN tbl)

\* the descriptors accept() can return: those not open
FreeFds(fds) == {fd \in fds : ~sock[fd].open}

\* handle the listening socket: handle_accept when it is ready
DoAccept(env) ==
    /\ Running
    /\ pc = "accept"
    /\ pc' = "conns"
    /\ pi' = 1
    /\ IF listen_rev /\ backlog > 0 /\ FreeFds(env.fds) # {}
       THEN \E conn_fd \in FreeFds(env.fds) :
               LET tbl == IF tbl_size(fd2conn) <= conn_fd
                          THEN resize(fd2conn, conn_fd + 1)
                          ELSE fd2conn
               IN  /\ backlog' = backlog - 1
                   /\ sock' = [sock EXCEPT ![conn_fd] =
                                   [ClosedSock EXCEPT !.open = TRUE]]
                   /\ served' = [served EXCEPT ![conn_fd] = << >>]
                   /\ conn' = (next_id :> conn_new(conn_fd, now)) @@ conn
                   /\ next_id' = next_id + 1
                   /\ idle_list' = dlist_insert_before(idle_list, next_id)
                   /\ IF tbl[conn_fd] # NULL
                      THEN /\ failed' = "!g_data.fd2conn[conn->fd]"
                           /\ fd2conn' = tbl
                      ELSE /\ failed' = failed
                           /\ fd2conn' = [tbl EXCEPT ![conn_fd] = next_id]
       ELSE \* not ready, or accept() fails: nothing changes
            UNCHANGED << backlog, sock, served, conn, next_id, idle_list,
                         failed, fd2conn >>
    /\ UNCHANGED << db, crashed, dbvars, now, poll_args, listen_rev,
                    timeout_ms, poll_t0, step >>

\* the ready-connection body of main's loop after the idle-timer update.
\* First `if (ready & POLLIN)`
serve_pollin(c, d, ready, rd, w1) ==
    IF "POLLIN" \in ready
    THEN IF ~c.want_read
         THEN [conn |-> c, db |-> d, ub |-> FALSE, calls |-> << >>,
               wrote |-> << >>, writes |-> << >>,
               assert |-> "conn->want_read"]
         ELSE handle_read(c, d, rd, w1)
    ELSE [conn |-> c, db |-> d, ub |-> FALSE, calls |-> << >>,
          wrote |-> << >>, writes |-> << >>, assert |-> ""]

\* then `if (ready & POLLOUT)`, r being what the POLLIN part left
serve_pollout(r, ready, w2) ==
    IF r.assert = "" /\ "POLLOUT" \in ready
    THEN IF ~r.conn.want_write
         THEN [conn |-> r.conn, wrote |-> << >>, writes |-> << >>,
               assert |-> "conn->want_write"]
         ELSE handle_write(r.conn, w2)
    ELSE [conn |-> r.conn, wrote |-> << >>, writes |-> << >>,
          assert |-> r.assert]

\* then the decision to destroy, w being what the POLLOUT part left
serve_close(c, r, w, ready, rd) ==
    [conn |-> w.conn, db |-> r.db, ub |-> r.ub, calls |-> r.calls,
     wrote |-> r.wrote \o w.wrote,
     reads |-> IF "POLLIN" \in ready /\ c.want_read THEN <<rd>> ELSE << >>,
     writes |-> r.writes \o w.writes, assert |-> w.assert,
     destroy |-> "POLLERR" \in ready \/ w.conn.want_close]

\* the two parts after POLLIN, in sequence
serve_rest(c, r, ready, rd, w2) ==
    serve_close(c, r, serve_pollout(r, ready, w2), ready, rd)

serve_conn(c, d, ready, rd, w1, w2) ==
    serve_rest(c, serve_pollin(c, d, ready, rd, w1), ready, rd, w2)

\* conn_destroy as it would be if it left the table slot set
conn_destroy_keeps_slot(g, id) ==
    [fd2conn |-> g.fd2conn,
     idle_list |-> dlist_detach(g.idle_list, id),
     conn |-> [j \in DOMAIN g.conn \ {id} |-> g.conn[j]],
     closed |-> g.closed \cup {g.conn[id].fd},
     ub |-> g.ub]

\* a conn_destroy that leaves the node on the idle list
conn_destroy_keeps_node(g, id) ==
    [fd2conn |-> [g.fd2conn EXCEPT ![g.conn[id].fd] = NULL],
     idle_list |-> g.idle_list,
     conn |-> [j \in DOMAIN g.conn \ {id} |-> g.conn[j]],
     closed |-> g.closed \cup {g.conn[id].fd},
     ub |-> g.ub]

\* close the descriptor, clear the slot, unlink, delete; g holds the
\* table, the heap, the idle list and the descriptors closed so far
conn_destroy(g, id) ==
    [fd2conn |-> [g.fd2conn EXCEPT ![g.conn[id].fd] = NULL],
     idle_list |-> dlist_detach(g.idle_list, id),
     conn |-> [j \in DOMAIN g.conn \ {id} |-> g.conn[j]],
     closed |-> g.closed \cup {g.conn[id].fd},
     ub |-> g.ub]

\* timers that reap nothing
process_timers_never(g, now_ms) == g

\* timers that take a head whose deadline is now for expired
RECURSIVE process_timers_eager(_, _)
process_timers_eager(g, now_ms) ==
    IF dlist_empty(g.idle_list) THEN g
    ELSE IF g.idle_list[1] \notin DOMAIN g.conn THEN [g EXCEPT !.ub = TRUE]
    ELSE IF g.conn[g.idle_list[1]].last_active_ms + k_idle_timeout_ms
                > now_ms
    THEN g
    ELSE process_timers_eager(conn_destroy(g, g.idle_list[1]), now_ms)

\* while the list head has expired, destroy it; a head that is no live
\* Conn is a read of freed memory (g.ub)
RECURSIVE process_timers(_, _)
process_timers(g, now_ms) ==
    IF dlist_empty(g.idle_list) THEN g
    ELSE IF g.idle_list[1] \notin DOMAIN g.conn THEN [g EXCEPT !.ub = TRUE]
    ELSE IF g.conn[g.idle_list[1]].last_active_ms + k_idle_timeout_ms
                >= now_ms
    THEN g
    ELSE process_timers(conn_destroy(g, g.idle_list[1]), now_ms)

G == [fd2conn |-> fd2conn, idle_list |-> idle_list, conn |-> conn,
      closed |-> {}, ub |-> FALSE]

\* what read() can return on a descriptor
ReadChoices(fd, env) ==
    {IoFail("ECONNRESET")}
        \cup IF sock[fd].rx = << >>
             THEN IF sock[fd].peer_closed THEN {IoDone(<< >>)}
                  ELSE {IoFail("EAGAIN")}
             ELSE {IoDone(SubSeq(sock[fd].rx, 1, Min(k, Len(sock[fd].rx)))) :
                      k \in env.rsizes}

\* what write() can return: an error, or the bytes the kernel takes
WriteChoices(env) ==
    {IoFail("EAGAIN"), IoFail("EPIPE")}
        \cup {[rv |-> k, errno |-> "", data |-> << >>] : k \in env.wsizes}

\* the poll_args index the connection pass handles next: the first one at
\* or after i whose revents is not 0
NextReady ==
    {i \in pi..Len(poll_args) :
        /\ poll_args[i].revents # {}
        /\ \A j \in pi..(i - 1) : poll_args[j].revents = {}}

\* the response frames try_one_request appended, with their requests
RECURSIVE Dispatched(_)
Dispatched(cs) ==
    IF cs = << >> THEN << >>
    ELSE IF Head(cs).ret
    THEN << [cmd |-> Head(cs).cmd,
             resp |-> SubSeq(Head(cs).cout.outgoing,
                             Len(Head(cs).cin.outgoing) + 1,
                             Len(Head(cs).cout.outgoing))] >>
             \o Dispatched(Tail(cs))
    ELSE Dispatched(Tail(cs))

\* one ready connection of the pass `for (i = 1; i < poll_args.size(); ++i)`;
\* drains: the step is one for POLLOUT alone whose write() takes bytes
ConnStepOn(env, drains) ==
    /\ Running
    /\ pc = "conns"
    /\ \E i \in {j \in NextReady :
                   drains => poll_args[j].revents = {"POLLOUT"}} :
       LET ready == poll_args[i].revents
           fd == poll_args[i].fd
           id == fd2conn[fd]
       IN  IF id = NULL \/ id \notin DOMAIN conn
           THEN \* a null or dangling Conn* is dereferenced
                /\ crashed' = TRUE
                /\ UNCHANGED << db, failed, fd2conn, conn, idle_list, pi,
                                sock, served, step >>
           ELSE \E rd \in (IF "POLLIN" \in ready THEN ReadChoices(fd, env)
                           ELSE {IoFail("")}) :
                \E w1 \in (IF rd.rv > 0 THEN WriteChoices(env)
                           ELSE {IoFail("")}) :
                \E w2 \in (IF "POLLOUT" \in ready
                           THEN {w \in WriteChoices(env) :
                                    drains => w.rv > 0}
                           ELSE {IoFail("")}) :
                \* u: the timer update; r: the handlers; g1, g2: the
                \* globals before and after the decision to destroy
                \E u \in {update_idle_timer(conn[id], idle_list, id, now)} :
                \E r \in {serve_conn(u.conn, db, ready, rd, w1, w2)} :
                \E g1 \in {[fd2conn |-> fd2conn, idle_list |-> u.idle_list,
                             conn |-> [conn EXCEPT ![id] = r.conn],
                             closed |-> {}, ub |-> FALSE]} :
                \E g2 \in {IF r.destroy THEN conn_destroy(g1, id) ELSE g1} :
                \E stop \in (IF r.ub THEN {FALSE, TRUE} ELSE {FALSE}) :
                    IF stop \/ r.assert # ""
                    THEN /\ crashed' = stop
                         /\ failed' = IF stop THEN failed ELSE r.assert
                         /\ UNCHANGED << db, fd2conn, conn, idle_list, pi,
                                         sock, served, step >>
                    ELSE /\ UNCHANGED << crashed, failed >>
                         /\ db' = r.db
                         /\ fd2conn' = g2.fd2conn
                         /\ conn' = g2.conn
                         /\ idle_list' = g2.idle_list
                         /\ pi' = i + 1
                         /\ step' = [id |-> id, fd |-> fd, ready |-> ready,
                                     before |-> conn[id],
                                     reads |-> r.reads,
                                     writes |-> r.writes,
                                     calls |-> r.calls,
                                     want_close |-> r.conn.want_close,
                                     destroy |-> r.destroy,
                                     reaped |-> {}]
                         /\ sock' = [sock EXCEPT ![fd] =
                                IF r.destroy THEN ClosedSock
                                ELSE [@ EXCEPT
                                         !.rx = IF rd.rv > 0
                                                THEN buf_consume(@, rd.rv)
                                                ELSE @,
                                         !.tx = @ \o r.wrote]]
                         /\ served' = [served EXCEPT ![fd] =
                                IF r.destroy THEN << >>
                                ELSE @ \o Dispatched(r.calls)]
    /\ UNCHANGED << dbvars, now, next_id, pc, poll_args, listen_rev,
                    timeout_ms, poll_t0, backlog >>

ConnStep(env) == ConnStepOn(env, FALSE)

\* the pass is over: handle timers, and go round
Timers ==
    /\ Running
    /\ pc = "conns"
    /\ NextReady = {}
    /\ \E g \in {process_timers(G, now)} :
           /\ crashed' = g.ub
           /\ fd2conn' = g.fd2conn
           /\ conn' = g.conn
           /\ idle_list' = g.idle_list
           /\ sock' = [fd \in DOMAIN sock |->
                          IF fd \in g.closed THEN ClosedSock ELSE sock[fd]]
           /\ served' = [fd \in DOMAIN served |->
                            IF fd \in g.closed THEN << >> ELSE served[fd]]
           /\ step' = [NoStep EXCEPT !.reaped = g.closed]
    \* back to the top: poll_args.clear(); the locals of the finished
    \* iteration are dead
    /\ pc' = "top"
    /\ poll_args' = << >>
    /\ listen_rev' = FALSE
    /\ pi' = 1
    /\ timeout_ms' = -1
    /\ poll_t0' = 0
    /\ UNCHANGED << db, failed, dbvars, now, next_id, backlog >>

(***************************************************************************)
(* The environment: the clock and the clients.  Clients act while the      *)
(* server waits in poll(): what a client does during a pass reaches the    *)
(* server only through the reads of that pass or of a later one, and       *)
(* PollReturn already reports any part of what is ready.                   *)
(***************************************************************************)
Tick ==
    /\ now + TickMs <= MaxNow
    /\ now' = now + TickMs
    /\ UNCHANGED << db, crashed, failed, dbvars, fd2conn, conn, idle_list,
                    next_id, pc, poll_args, listen_rev, pi, timeout_ms,
                    poll_t0, sock, backlog, served, step >>

ClientConnect(env) ==
    /\ pc = "poll"
    /\ backlog = 0
    /\ next_id <= env.max_conns
    /\ backlog' = 1
    /\ UNCHANGED << db, crashed, failed, dbvars, now, fd2conn, conn,
                    idle_list, next_id, pc, poll_args, listen_rev, pi,
                    timeout_ms, poll_t0, sock, served, step >>

ClientSend(env) ==
    /\ pc = "poll"
    /\ \E fd \in env.fds, f \in env.frames :
           /\ sock[fd].open
           /\ ~sock[fd].peer_closed
           /\ Len(sock[fd].sent) < env.max_frames
           /\ sock' = [sock EXCEPT ![fd].rx = @ \o f,
                                   ![fd].sent = Append(@, f)]
    /\ UNCHANGED << db, crashed, failed, dbvars, now, fd2conn, conn,
                    idle_list, next_id, pc, poll_args, listen_rev, pi,
                    timeout_ms, poll_t0, backlog, served, step >>

ClientClose(env) ==
    /\ pc = "poll"
    /\ \E fd \in env.fds :
           /\ sock[fd].open
           /\ ~sock[fd].peer_closed
           /\ sock' = [sock EXCEPT ![fd].peer_closed = TRUE]
    /\ UNCHANGED << db, crashed, failed, dbvars, now, fd2conn, conn,
                    idle_list, next_id, pc, poll_args, listen_rev, pi,
                    timeout_ms, poll_t0, backlog, served, step >>

Server(env) ==
    \/ BeginPoll
    \/ PollReturn
    \/ PollEINTR
    \/ DoAccept(env)
    \/ ConnStep(env)
    \/ Timers

Clients(env) ==
    \/ ClientConnect(env)
    \/ ClientSend(env)
    \/ ClientClose(env)

Next ==
    \/ Server(EnvLoop)
    \/ ClientConnect(EnvLoop)
    \/ ClientSend(EnvLoop)
    \/ Tick

Spec == Init /\ [][Next]_vars

NextConn == Server(EnvConn) \/ Clients(EnvConn)

\* clients that connect and send nothing, and the loop with its
\* scheduling: the process keeps running, and poll() does not fail with
\* EINTR for ever
NextIdle == Server(EnvIdle) \/ ClientConnect(EnvIdle) \/ Tick

SpecIdle ==
    /\ Init
    /\ [][NextIdle]_vars
    /\ WF_vars(BeginPoll)
    /\ SF_vars(PollReturn)
    /\ WF_vars(DoAccept(EnvIdle))
    /\ WF_vars(ConnStep(EnvIdle))
    /\ WF_vars(Timers)

SpecConn == Init /\ [][NextConn]_vars

\* poll() reports a connection writable, and nothing else on it
PollWritable ==
    /\ PollReturn
    /\ \E i \in 1..Len(poll_args) : poll_args'[i].revents = {"POLLOUT"}

\* handle_write runs on POLLOUT and its write() takes bytes
WriteProgress(env) == ConnStepOn(env, TRUE)

\* one client, its requests, and the loop with its scheduling; a socket
\* with bytes to write is reported writable again and again, and its
\* write() does not refuse for ever
NextFlush ==
    Server(EnvFlush) \/ ClientConnect(EnvFlush) \/ ClientSend(EnvFlush)

SpecFlush ==
    /\ Init
    /\ [][NextFlush]_vars
    /\ WF_vars(BeginPoll)
    /\ SF_vars(PollReturn)
    /\ SF_vars(PollWritable)
    /\ WF_vars(DoAccept(EnvFlush))
    /\ WF_vars(ConnStep(EnvFlush))
    /\ SF_vars(WriteProgress(EnvFlush))
    /\ WF_vars(Timers)

NextProto == Server(EnvProto) \/ Clients(EnvProto)

SpecProto == Init /\ [][NextProto]_vars

(***************************************************************************)
(* Reading replies, as a client does.                                      *)
(***************************************************************************)
\* body is exactly one ERR value with this code
IsErr(body, code) ==
    /\ Len(body) >= 9
    /\ body[1] = TAG_ERR
    /\ u32_at(body, 1) = code
    /\ u32_at(body, 5) = Len(body) - 9

ReplyOf(d, cmd) == do_request(d, cmd, << >>).out

IsCmd(cmd, name, arity) == Len(cmd) = arity /\ cmd[1] = name

(***************************************************************************)
(* C2.  `get k` replies STR v, v the value of the latest successful        *)
(* `set k v` that no `del k` followed, whatever commands came in between   *)
(* (the reply is the one do_get computes on the keyspace as it stands).    *)
(***************************************************************************)
C2_GetReturnsLatestSet ==
    \A k \in DOMAIN shadow :
        ReplyOf(db, <<S_get, k>>) = out_str(<< >>, shadow[k].val)

\* a `get` has just been answered with a value that replaced an earlier one
C2_Witness ==
    /\ IsCmd(last.cmd, S_get, 2)
    /\ last.cmd[2] \in DOMAIN shadow
    /\ shadow[last.cmd[2]].over
    /\ last.out = out_str(<< >>, shadow[last.cmd[2]].val)
    /\ \E k \in DOMAIN db : db[k].type = T_ZSET

(***************************************************************************)
(* C3.  `del k` replies INT 1 exactly when k was bound and INT 0           *)
(* otherwise; afterwards k is absent (`get k` replies NIL, `del k` replies *)
(* INT 0) and every other key is bound as before.                          *)
(***************************************************************************)
C3_DelReplies ==
    IsCmd(last.cmd, S_del, 2) =>
        LET k == last.cmd[2]
        IN  /\ last.out =
                   out_int(<< >>, IF k \in DOMAIN last.before THEN 1 ELSE 0)
            /\ k \notin DOMAIN db
            /\ ReplyOf(db, <<S_get, k>>) = out_nil(<< >>)
            /\ ReplyOf(db, <<S_del, k>>) = out_int(<< >>, 0)
            /\ DOMAIN db = DOMAIN last.before \ {k}
            /\ \A j \in DOMAIN db : db[j] = last.before[j]

(***************************************************************************)
(* C4.  A command on a key of the wrong type replies ERR BAD_TYP and       *)
(* leaves the keyspace as it was: get/set on a ZSET, and zadd, zrem,       *)
(* zscore, zquery with well-formed numbers on a STRING.                    *)
(***************************************************************************)
HoldsType(d, k, type) == k \in DOMAIN d /\ d[k].type = type

WrongType(d, cmd) ==
    \/ IsCmd(cmd, S_get, 2) /\ HoldsType(d, cmd[2], T_ZSET)
    \/ IsCmd(cmd, S_set, 3) /\ HoldsType(d, cmd[2], T_ZSET)
    \/ IsCmd(cmd, S_zadd, 4) /\ HoldsType(d, cmd[2], T_STR)
           /\ str2dbl(cmd[3]).ok
    \/ IsCmd(cmd, S_zrem, 3) /\ HoldsType(d, cmd[2], T_STR)
    \/ IsCmd(cmd, S_zscore, 3) /\ HoldsType(d, cmd[2], T_STR)
    \/ IsCmd(cmd, S_zquery, 6) /\ HoldsType(d, cmd[2], T_STR)
           /\ str2dbl(cmd[3]).ok /\ str2int(cmd[5]).ok /\ str2int(cmd[6]).ok

C4_WrongTypeRejected ==
    WrongType(last.before, last.cmd) =>
        /\ IsErr(last.out, ERR_BAD_TYP)
        /\ db = last.before

\* a `set` has just been refused on a key that holds a non-empty ZSET
C4_Witness ==
    /\ IsCmd(last.cmd, S_set, 3)
    /\ HoldsType(last.before, last.cmd[2], T_ZSET)
    /\ DOMAIN last.before[last.cmd[2]].zset # {}
    /\ HoldsType(db, last.cmd[2], T_ZSET)
    /\ IsErr(last.out, ERR_BAD_TYP)


(***************************************************************************)
(* The event loop: I/O failures, timers, the idle list, the table.         *)
(***************************************************************************)
Range(f) == {f[i] : i \in DOMAIN f}

Failed(io) == io.rv < 0 /\ io.errno # "EAGAIN"

Again(io) == io.rv < 0 /\ io.errno = "EAGAIN"

\* a read() or a write() of the step failed with something else than EAGAIN
IoFailure(st) ==
    \/ \E i \in DOMAIN st.reads : Failed(st.reads[i])
    \/ \E i \in DOMAIN st.writes : Failed(st.writes[i])

\* conn_destroy has run on the connection
Gone(id, fd) ==
    /\ id \notin DOMAIN conn
    /\ fd2conn[fd] = NULL
    /\ id \notin Range(idle_list)
    /\ ~sock[fd].open

\* C7 (as the code has it): when a read() or write() of a connection fails
\* with something else than EAGAIN, want_close is set and the connection is
\* destroyed in that same loop iteration, as soon as its handlers return;
\* when read() or write() fails with EAGAIN no close intent is set, and
\* unless POLLERR was reported the connection stays, still wanting the
\* same I/O.
C7_IoFailureCloses ==
    step.id # NULL =>
        /\ IoFailure(step) =>
              /\ step.want_close
              /\ step.destroy
              /\ Gone(step.id, step.fd)
              /\ pc = "conns"
        /\ (\E i \in DOMAIN step.reads : Again(step.reads[i])) =>
              /\ ~step.want_close
              /\ step.writes = << >>
              /\ "POLLERR" \notin step.ready =>
                    /\ step.id \in DOMAIN conn
                    /\ conn[step.id] =
                           [step.before EXCEPT
                               !.last_active_ms = conn[step.id].last_active_ms]
        /\ (\E i \in DOMAIN step.writes : Again(step.writes[i])) =>
              /\ step.want_close =>
                    \E i \in DOMAIN step.calls : step.calls[i].cout.want_close
              /\ ~step.want_close /\ "POLLERR" \notin step.ready =>
                    /\ step.id \in DOMAIN conn
                    /\ ~conn[step.id].want_close
                    /\ conn[step.id].want_write
                    /\ Len(conn[step.id].outgoing) > 0

\* C7 witness: a write() failed with EPIPE and the connection is gone
C7_Witness ==
    /\ step.id # NULL
    /\ \E i \in DOMAIN step.writes : step.writes[i].errno = "EPIPE"
    /\ Gone(step.id, step.fd)

\* C7 as stated: after the failure the connection, want_close set, outlives
\* the loop iteration in which the failure occurred
C7_DestroyedNextIteration ==
    step.id # NULL /\ IoFailure(step) =>
        /\ step.id \in DOMAIN conn
        /\ conn[step.id].want_close

Expired(id) ==
    /\ id \in DOMAIN conn
    /\ conn[id].last_active_ms + k_idle_timeout_ms < now

\* the timeout poll() was entered with is none iff the idle list is empty,
\* else max(0, head.last_active_ms + idle_timeout_ms - now_ms), and it has
\* run out as soon as a connection has expired
PollTimeout ==
    pc = "poll" =>
        /\ timeout_ms =
              IF idle_list = << >> THEN -1
              ELSE LET d == conn[idle_list[1]].last_active_ms
                                + k_idle_timeout_ms - poll_t0
                   IN  IF d > 0 THEN d ELSE 0
        /\ (\E id \in DOMAIN conn : Expired(id)) =>
              /\ timeout_ms >= 0
              /\ poll_t0 + timeout_ms <= now

\* C8: a connection idle for more than idle_timeout_ms is destroyed, unless
\* a poll event refreshes it first, whatever the other connections do; and
\* the poll timeout is as PollTimeout says.
C8_IdleTimeout ==
    /\ []PollTimeout
    /\ \A id \in 1..MaxConns : Expired(id) ~> ~Expired(id)

\* C8 witness: process_timers closed the descriptor of a connection that
\* was idle and is gone
C8_Witness ==
    /\ step.reaped # {}
    /\ \A fd \in step.reaped : fd2conn[fd] = NULL /\ ~sock[fd].open

\* C9: the idle list, head to tail, is ordered by non-decreasing
\* last_active_ms, and holds the live connections, each once.
C9_IdleListOrdered ==
    /\ \A i, j \in DOMAIN idle_list :
          i < j => /\ idle_list[i] # idle_list[j]
                   /\ conn[idle_list[i]].last_active_ms
                          <= conn[idle_list[j]].last_active_ms
    /\ Range(idle_list) = DOMAIN conn

\* C9 witness: the older connection had activity and went behind the newer
C9_Witness ==
    /\ idle_list = <<2, 1>>
    /\ conn[2].last_active_ms < conn[1].last_active_ms

\* C10: each non-empty slot i of fd2conn holds a live Conn whose fd is i,
\* every live Conn is in the slot of its fd, and the assertion of
\* handle_accept has not failed.
C10_SlotHoldsOwnFd ==
    /\ \A i \in DOMAIN fd2conn :
          fd2conn[i] # NULL => /\ fd2conn[i] \in DOMAIN conn
                               /\ conn[fd2conn[i]].fd = i
    /\ \A id \in DOMAIN conn :
          conn[id].fd \in DOMAIN fd2conn /\ fd2conn[conn[id].fd] = id
    /\ failed # "!g_data.fd2conn[conn->fd]"

\* C10 witness: a descriptor is reused: the second connection sits in the
\* slot the first one, destroyed, had
C10_Witness ==
    /\ tbl_size(fd2conn) = LISTEN_FD + 2
    /\ 2 \in DOMAIN conn
    /\ conn[2].fd = LISTEN_FD + 1
    /\ fd2conn[LISTEN_FD + 1] = 2


(***************************************************************************)
(* One connection: pipelining, command errors, protocol violations.        *)
(***************************************************************************)
RECURSIVE Concat(_)
Concat(ss) == IF ss = << >> THEN << >> ELSE Head(ss) \o Concat(Tail(ss))

\* how many of the frames lie wholly within the first n bytes sent
RECURSIVE FramesWithin(_, _)
FramesWithin(frames, n) ==
    IF frames = << >> \/ Len(Head(frames)) > n THEN 0
    ELSE 1 + FramesWithin(Tail(frames), n - Len(Head(frames)))

\* the response stream a client reads for requests served one after the
\* other from keyspace d: a frame per request, its body the reply
RECURSIVE ExpectedStream(_, _)
ExpectedStream(d, cmds) ==
    IF cmds = << >> THEN << >>
    ELSE LET r == do_request(d, Head(cmds), << >>)
         IN  FrameOf(r.out) \o ExpectedStream(r.db, Tail(cmds))

\* the requests the client of descriptor fd has sent
SentCmds(fd) ==
    [i \in 1..Len(sock[fd].sent) |->
        CHOOSE cmd \in ConnCmds : Frame(cmd) = sock[fd].sent[i]]

\* C1: on the (first) connection, whose client reads nothing back, the
\* bytes written and waiting in `outgoing` are at any time the response
\* frames, in order, of exactly the requests whose frames the server has
\* read completely, each the reply to its request served after the ones
\* before it, however read() split the bytes; the rest of what was read
\* waits in `incoming`.
C1_PipelineOrder ==
    \A fd \in ConnFds :
        sock[fd].open /\ next_id = 2 =>
            LET c == conn[fd2conn[fd]]
                bytes == Concat(sock[fd].sent)
                nread == Len(bytes) - Len(sock[fd].rx)
                n == FramesWithin(sock[fd].sent, nread)
                cmds == SentCmds(fd)
                done == Len(Concat(SubSeq(sock[fd].sent, 1, n)))
            IN  /\ sock[fd].tx \o c.outgoing
                       = ExpectedStream(<< >>, SubSeq(cmds, 1, n))
                /\ [i \in 1..Len(served[fd]) |-> served[fd][i].cmd]
                       = SubSeq(cmds, 1, n)
                /\ c.incoming = SubSeq(bytes, done + 1, nread)

\* C1 witness: three requests, the replies of which depend on their order,
\* came in with one read() and their three responses have been written
C1_Witness ==
    LET fd == LISTEN_FD + 1
    IN  /\ sock[fd].open
        /\ SentCmds(fd) = << <<S_get, A>>, <<S_set, A, X>>, <<S_get, A>> >>
        /\ Len(Dispatched(step.calls)) = 3
        /\ sock[fd].tx =
               FrameOf(out_nil(<< >>)) \o FrameOf(out_nil(<< >>))
                   \o FrameOf(out_str(<< >>, X))

\* the bytes a try_one_request call appended to `outgoing`
Appended(k) ==
    SubSeq(k.cout.outgoing, Len(k.cin.outgoing) + 1, Len(k.cout.outgoing))

\* the call dispatched a request and the reply is an ERR value
ErrCall(k) ==
    /\ k.ret
    /\ Len(Appended(k)) >= 5
    /\ Appended(k)[5] = TAG_ERR

\* C5: a try_one_request call that answers a well-framed request with ERR
\* leaves want_close false, removes exactly the request frame from
\* `incoming`, appends exactly one response frame, holding an ERR value of
\* one of the four codes, and the loop goes on to the next request, which
\* is dispatched when it is there.
C5_CommandErrorKeepsOpen ==
    \A i \in DOMAIN step.calls :
        LET k == step.calls[i]
            resp == Appended(k)
            body == SubSeq(resp, 5, Len(resp))
        IN  ErrCall(k) =>
                /\ ~k.cout.want_close
                /\ k.cout.incoming =
                       buf_consume(k.cin.incoming,
                                   4 + u32_at(k.cin.incoming, 0))
                /\ k.cin.incoming =
                       Frame(k.cmd) \o k.cout.incoming
                /\ resp = FrameOf(body)
                /\ \E code \in {ERR_UNKNOWN, ERR_TOO_BIG, ERR_BAD_TYP,
                                ERR_BAD_ARG} : IsErr(body, code)
                /\ i < Len(step.calls)
                /\ step.calls[i + 1].cin = k.cout
                /\ (\E cmd \in ProtoCmds :
                       HasPrefix(k.cout.incoming, Frame(cmd)))
                       => step.calls[i + 1].ret

\* C5 witness: a request refused with ERR, the next request of the same
\* read dispatched, and the connection still there
C5_Witness ==
    /\ step.id \in DOMAIN conn
    /\ ~conn[step.id].want_close
    /\ \E i \in DOMAIN step.calls :
          /\ ErrCall(step.calls[i])
          /\ i < Len(step.calls)
          /\ step.calls[i + 1].ret

\* `incoming` starts with a frame that breaks the protocol
Violation(incoming) == \E f \in BadFrames : HasPrefix(incoming, f)

\* C6: a try_one_request call that finds a protocol violation returns
\* false with want_close set, appends nothing to `outgoing`, leaves the
\* keyspace alone, and is the last call made on the connection, which is
\* destroyed with whatever followed the frame.
C6_ProtocolViolationCloses ==
    \A i \in DOMAIN step.calls :
        LET k == step.calls[i]
        IN  Violation(k.cin.incoming) =>
                /\ ~k.ret
                /\ k.cout.want_close
                /\ k.cout.outgoing = k.cin.outgoing
                /\ k.cout.incoming = k.cin.incoming
                /\ k.after = k.before
                /\ db = k.before
                /\ i = Len(step.calls)
                /\ step.want_close
                /\ step.destroy
                /\ Gone(step.id, step.fd)

\* C6 witness: a violating frame with another frame behind it, and the
\* connection gone
C6_Witness ==
    /\ step.id # NULL
    /\ Gone(step.id, step.fd)
    /\ step.calls # << >>
    /\ \E f \in BadFrames :
          LET inc == step.calls[Len(step.calls)].cin.incoming
          IN  HasPrefix(inc, f) /\ Len(inc) > Len(f)

\* the Connections conn_destroy has run on: identities are handed out in
\* order and never again
Destroyed == (1..(next_id - 1)) \ DOMAIN conn

\* C11: conn_destroy runs at most once per Connection and nothing uses the
\* Connection afterwards: a destroyed Connection is in no slot of fd2conn
\* and off the idle list, every entry the ready-connection pass has still
\* to handle finds a live Connection in its slot, the head process_timers
\* looks at is live, and no null or dangling Conn* was dereferenced.
C11_DestroyedOnce ==
    /\ ~crashed
    /\ \A id \in Destroyed :
          /\ id \notin Range(idle_list)
          /\ \A fd \in DOMAIN fd2conn : fd2conn[fd] # id
    /\ pc = "conns" =>
          \A i \in pi..Len(poll_args) :
              poll_args[i].revents # {} =>
                  /\ fd2conn[poll_args[i].fd] # NULL
                  /\ fd2conn[poll_args[i].fd] \in DOMAIN conn
    /\ idle_list # << >> => idle_list[1] \in DOMAIN conn
    /\ step.id # NULL /\ step.destroy =>
          /\ step.id \in Destroyed
          /\ Gone(step.id, step.fd)
    /\ \A fd \in step.reaped : fd2conn[fd] = NULL /\ ~sock[fd].open

\* C11 witness: a connection was destroyed in the pass while another ready
\* connection of the same pass is still to be handled
C11_Witness ==
    /\ step.id # NULL
    /\ step.destroy
    /\ Gone(step.id, step.fd)
    /\ pc = "conns"
    /\ NextReady # {}

\* a zquery with arguments that parse, limit > 0, on a key that holds a ZSET
ZqueryOnZset(d, cmd) ==
    /\ IsCmd(cmd, S_zquery, 6)
    /\ str2dbl(cmd[3]).ok /\ str2int(cmd[5]).ok /\ str2int(cmd[6]).ok
    /\ str2int(cmd[6]).val > 0
    /\ HoldsType(d, cmd[2], T_ZSET)

\* the members, in (score, name) order, from the one seek-ge(score, name)
\* advanced by offset reaches
Remaining(zset, score, name, offset) ==
    LET pos == znode_offset(zset, zset_seekge(zset, score, name), offset)
    IN  IF pos = 0 THEN << >>
        ELSE SubSeq(zset_sorted(zset), pos, Cardinality(DOMAIN zset))

\* STR name, DBL score of each member
RECURSIVE Pairs(_, _)
Pairs(zset, names) ==
    IF names = << >> THEN << >>
    ELSE out_dbl(out_str(<< >>, Head(names)), zset[Head(names)])
             \o Pairs(zset, Tail(names))

\* an ARR of the first cnt of the members that remain
ZqueryReply(zset, rem, cnt) ==
    out_arr(<< >>, 2 * cnt) \o Pairs(zset, SubSeq(rem, 1, cnt))

\* C12: zquery with limit > 0 on a ZSET replies an ARR of the first
\* min(limit, m) of the m members that remain from the position reached,
\* in ascending (score, name) order, each as STR name and DBL score, the
\* declared count being twice the number of members.
C12_ZqueryEmitsLimit ==
    ZqueryOnZset(last.before, last.cmd) =>
        LET zset == last.before[last.cmd[2]].zset
            rem == Remaining(zset, str2dbl(last.cmd[3]).val, last.cmd[4],
                             str2int(last.cmd[5]).val)
        IN  last.out = ZqueryReply(zset, rem,
                           Min(str2int(last.cmd[6]).val, Len(rem)))

\* the buffer response_end_at leaves for the call k under the limit max_msg
EndedAt(k, max_msg) ==
    response_end_at(
        do_request(k.before, k.cmd, response_begin(k.cin.outgoing).out).out,
        response_begin(k.cin.outgoing).header, max_msg)

\* C13: the frame a try_one_request call appends to `outgoing` is a 4-byte
\* header equal to the number of body bytes behind it, at most k_max_msg,
\* and the bytes `outgoing` held before are unchanged; the body is the
\* serialized reply, and under any limit the reply exceeds (each of
\* 0..MaxCut taken for k_max_msg on the same call) response_end leaves the
\* earlier bytes followed by one ERR(TOO_BIG, "response too big.") frame.
C13_ResponseFramed ==
    \A i \in DOMAIN step.calls :
        LET k == step.calls[i]
            resp == Appended(k)
            body == SubSeq(resp, 5, Len(resp))
        IN  k.ret =>
                /\ HasPrefix(k.cout.outgoing, k.cin.outgoing)
                /\ Len(resp) >= 4
                /\ u32_at(resp, 0) = Len(body)
                /\ Len(body) <= k_max_msg
                /\ body = ReplyOf(k.before, k.cmd)
                /\ \A max_msg \in 0..MaxCut :
                      EndedAt(k, max_msg) =
                          IF Len(body) > max_msg
                          THEN k.cin.outgoing
                                   \o FrameOf(out_err(<< >>, ERR_TOO_BIG,
                                                      MSG_too_big))
                          ELSE k.cout.outgoing

\* C13 witness: a frame appended behind response bytes not yet written,
\* its body above MaxCut, and in the same read one with a body within it
C13_Witness ==
    \E i, j \in DOMAIN step.calls :
        /\ step.calls[i].ret /\ step.calls[j].ret
        /\ step.calls[i].cin.outgoing # << >>
        /\ Len(Appended(step.calls[i])) - 4 > MaxCut
        /\ Len(Appended(step.calls[j])) - 4 <= MaxCut

\* the members of the ZSET under key k, none when k holds no ZSET
MembersOf(d, k) == IF HoldsType(d, k, T_ZSET) THEN DOMAIN d[k].zset ELSE {}

\* a zadd with a score str2dbl accepts, on a key that holds no STRING
ValidZadd(d, cmd) ==
    /\ IsCmd(cmd, S_zadd, 4)
    /\ str2dbl(cmd[3]).ok
    /\ ~HoldsType(d, cmd[2], T_STR)

\* C14: a zadd with a valid score leaves a ZSET under the key, replies
\* INT 1 exactly when the name was no member and INT 0 when it was, sets
\* that member's score and no other's, and zscore then replies DBL that
\* score; a member's score changes or appears only by a zadd of that
\* member with that score (so zscore gives the score of the most recent
\* zadd), and the index lists each name once.
C14_ZaddThenZscore ==
    [][ LET cmd == last'.cmd
        IN  /\ ValidZadd(db, cmd) =>
                  /\ HoldsType(db', cmd[2], T_ZSET)
                  /\ last'.out =
                         out_int(<< >>, IF cmd[4] \in MembersOf(db, cmd[2])
                                        THEN 0 ELSE 1)
                  /\ MembersOf(db', cmd[2])
                         = MembersOf(db, cmd[2]) \cup {cmd[4]}
                  /\ db'[cmd[2]].zset[cmd[4]] = str2dbl(cmd[3]).val
                  /\ ReplyOf(db', <<S_zscore, cmd[2], cmd[4]>>)
                         = out_dbl(<< >>, str2dbl(cmd[3]).val)
            /\ \A k \in DOMAIN db' : \A m \in MembersOf(db', k) :
                  \/ /\ m \in MembersOf(db, k)
                     /\ db'[k].zset[m] = db[k].zset[m]
                  \/ /\ ValidZadd(db, cmd)
                     /\ cmd[2] = k /\ cmd[4] = m
                     /\ db'[k].zset[m] = str2dbl(cmd[3]).val
            /\ \A k \in DOMAIN db' :
                  Len(zset_sorted(db'[k].zset))
                      = Cardinality(Range(zset_sorted(db'[k].zset)))
      ]_vars

\* C14 witness: a zadd of a member already there replied INT 0 and changed
\* its score, and another member kept its own
C14_Witness ==
    /\ ValidZadd(last.before, last.cmd)
    /\ last.out = out_int(<< >>, 0)
    /\ db[last.cmd[2]].zset[last.cmd[4]]
           # last.before[last.cmd[2]].zset[last.cmd[4]]
    /\ ReplyOf(db, <<S_zscore, last.cmd[2], last.cmd[4]>>)
           = out_dbl(<< >>, str2dbl(last.cmd[3]).val)
    /\ Cardinality(MembersOf(db, last.cmd[2])) > 1

\* a zrem, a zscore, or a zquery whose arguments parse
ReadsZset(cmd) ==
    \/ IsCmd(cmd, S_zrem, 3)
    \/ IsCmd(cmd, S_zscore, 3)
    \/ /\ IsCmd(cmd, S_zquery, 6)
       /\ str2dbl(cmd[3]).ok /\ str2int(cmd[5]).ok /\ str2int(cmd[6]).ok

\* C15: zrem, zscore and zquery (valid arguments) on a key that is not in
\* the keyspace reply INT 0, NIL and an empty ARR, and leave the keyspace
\* as it was: the key is still absent, `keys` lists what it listed, and
\* the ZSet the key stands for is still the empty one.
C15_MissingKeyIsEmptyZset ==
    ReadsZset(last.cmd) /\ ~hm_lookup(last.before, last.cmd[2]) =>
        /\ last.out =
              IF last.cmd[1] = S_zrem THEN out_int(<< >>, 0)
              ELSE IF last.cmd[1] = S_zscore THEN out_nil(<< >>)
              ELSE out_arr(<< >>, 0)
        /\ db = last.before
        /\ ~hm_lookup(db, last.cmd[2])
        /\ ReplyOf(db, <<S_keys>>) = ReplyOf(last.before, <<S_keys>>)
        /\ u32_at(ReplyOf(db, <<S_keys>>), 1) = hm_size(last.before)
        /\ expect_zset(db, last.cmd[2])
               = [null |-> FALSE, zset |-> k_empty_zset]
        /\ k_empty_zset = << >>

\* C15 witness: a zquery with limit > 0 on the missing key b, while key a
\* holds a ZSET with members, replied the empty ARR
C15_Witness ==
    /\ IsCmd(last.cmd, S_zquery, 6)
    /\ ReadsZset(last.cmd)
    /\ str2int(last.cmd[6]).val > 0
    /\ last.cmd[2] = B
    /\ MembersOf(db, A) # {}
    /\ last.out = out_arr(<< >>, 0)
    /\ DOMAIN db = {A}

\* the text is a decimal number: it parses, whole, as a finite double
ParsesFinite(s) == s # << >> /\ DigitsLen(s) = Len(s)

\* C16: a zadd whose score argument does not parse as a finite double
\* (not a number, empty, NaN, an infinity) replies ERR BAD_ARG and leaves
\* the keyspace as it was.
C16_BadScoreRejected ==
    IsCmd(last.cmd, S_zadd, 4) /\ ~ParsesFinite(last.cmd[3]) =>
        /\ IsErr(last.out, ERR_BAD_ARG)
        /\ db = last.before

\* the (argument count, first argument) pairs of the eight commands
Matched(cmd) ==
    \E p \in {<<2, S_get>>, <<3, S_set>>, <<2, S_del>>, <<1, S_keys>>,
              <<4, S_zadd>>, <<3, S_zrem>>, <<3, S_zscore>>,
              <<6, S_zquery>>} : IsCmd(cmd, p[2], p[1])

\* C17: a request whose (argument count, first argument) pair is none of
\* get/2, set/3, del/2, keys/1, zadd/4, zrem/3, zscore/3, zquery/6 replies
\* ERR UNKNOWN, "unknown command.", and leaves the keyspace unchanged.
C17_UnknownCommand ==
    [][ ~Matched(last'.cmd) =>
            /\ IsErr(last'.out, ERR_UNKNOWN)
            /\ last'.out = out_err(<< >>, ERR_UNKNOWN, MSG_unknown)
            /\ db' = db
      ]_vars

\* C17 witness: `GET a` has been refused with ERR UNKNOWN while the
\* keyspace holds a ZSET with members, which it left as they were
C17_Witness ==
    /\ last.cmd = <<<<71, 69, 84>>, A>>
    /\ IsErr(last.out, ERR_UNKNOWN)
    /\ MembersOf(db, A) # {}
    /\ db = last.before

\* C18: the timer pass destroys exactly the expired connections: one it
\* destroys has last_active_ms + idle_timeout_ms < now, and when it is done
\* no live connection has (for the same now); the others are as they
\* were, so a connection with an event in the last idle_timeout_ms stays.
C18_ReapsExactlyExpired ==
    [][ pc = "conns" /\ pc' = "top" =>
            /\ now' = now
            /\ DOMAIN conn' \subseteq DOMAIN conn
            /\ \A id \in DOMAIN conn \ DOMAIN conn' :
                  conn[id].last_active_ms + k_idle_timeout_ms < now
            /\ \A id \in DOMAIN conn' :
                  /\ conn'[id] = conn[id]
                  /\ ~(conn'[id].last_active_ms + k_idle_timeout_ms < now)
            /\ step'.reaped
                   = {conn[id].fd : id \in DOMAIN conn \ DOMAIN conn'}
      ]_vars

\* C18 witness: the timer pass has just destroyed one connection and kept
\* another, whose deadline is the very now it sampled
C18_Witness ==
    /\ pc = "top"
    /\ step.reaped # {}
    /\ \E id \in DOMAIN conn :
          conn[id].last_active_ms + k_idle_timeout_ms = now

\* the response frames dispatched on descriptor fd, in order
RespFrames(fd) == [i \in 1..Len(served[fd]) |-> served[fd][i].resp]

\* C19: whatever write() takes or refuses, the bytes handed to the socket
\* followed by those waiting in `outgoing` are the response frames of the
\* connection in order; the connection wants to write exactly while
\* `outgoing` is not empty, and to read otherwise; a write that takes n
\* bytes on POLLOUT removes those n bytes, the last ones handed to the
\* socket, from the front of `outgoing`, and one refused with EAGAIN
\* leaves `outgoing` and the intents as they were.
C19_WritesKeepStream ==
    /\ failed # "outgoing.size() > 0"
    /\ \A fd \in ConnFds :
          sock[fd].open /\ fd2conn[fd] # NULL =>
              LET c == conn[fd2conn[fd]]
              IN  /\ sock[fd].tx \o c.outgoing = Concat(RespFrames(fd))
                  /\ c.want_write <=> Len(c.outgoing) > 0
                  /\ c.want_read <=> ~c.want_write
    /\ step.id # NULL /\ step.id \in DOMAIN conn /\ step.reads = << >>
          /\ step.writes # << >> =>
              LET w == step.writes[1]
                  c == conn[step.id]
                  n == Min(w.rv, Len(step.before.outgoing))
              IN  /\ Again(w) =>
                        /\ c.outgoing = step.before.outgoing
                        /\ c.want_write /\ ~c.want_read
                  /\ w.rv >= 0 =>
                        /\ c.outgoing = buf_consume(step.before.outgoing, n)
                        /\ Len(sock[step.fd].tx) >= n
                        /\ SubSeq(sock[step.fd].tx,
                                  Len(sock[step.fd].tx) - n + 1,
                                  Len(sock[step.fd].tx))
                               = SubSeq(step.before.outgoing, 1, n)

\* C19 witness: a write on POLLOUT took 3 bytes of more, after earlier
\* bytes had gone out, and the rest still waits
C19_Witness ==
    /\ step.id # NULL /\ step.id \in DOMAIN conn
    /\ step.reads = << >>
    /\ step.writes # << >>
    /\ step.writes[1].rv = 3
    /\ Len(sock[step.fd].tx) > 3
    /\ conn[step.id].outgoing # << >>
    /\ conn[step.id].want_write

\* the connection is there with response bytes waiting
Pending(id) == id \in DOMAIN conn /\ conn[id].outgoing # << >>

\* the connection has written everything and reads again, or is gone
Flushed(id) ==
    \/ id \notin DOMAIN conn
    \/ /\ conn[id].outgoing = << >>
       /\ conn[id].want_read
       /\ ~conn[id].want_write

\* C20: a connection with a non-empty `outgoing` that stays open, its
\* socket reported writable again and again and its writes taking bytes,
\* comes to an empty `outgoing` and back to want_read; and each request
\* its client has sent, the n-th for every n, is then read and served.
C20_EventuallyDelivered ==
    /\ \A id \in 1..MaxConns : Pending(id) ~> Flushed(id)
    /\ \A fd \in ConnFds : \A n \in 1..MaxFlushFrames :
          (sock[fd].open /\ Len(sock[fd].sent) >= n)
              ~> (~sock[fd].open \/ Len(served[fd]) >= n)

\* C20 witness: writes on POLLOUT have emptied `outgoing`, the connection
\* wants to read again, and every request of the client has been served
C20_Witness ==
    /\ step.id # NULL /\ step.id \in DOMAIN conn
    /\ step.reads = << >>
    /\ step.writes # << >> /\ step.writes[1].rv > 0
    /\ Len(step.before.outgoing) > 0
    /\ Flushed(step.id)
    /\ Len(served[step.fd]) = MaxFlushFrames
    /\ sock[step.fd].tx = Concat(RespFrames(step.fd))

\* the events asked of poll() for a connection: errors, and reading or
\* writing, not both
OneIntent(events) ==
    \/ events = {"POLLERR", "POLLIN"}
    \/ events = {"POLLERR", "POLLOUT"}

\* C21: each live connection has exactly one of want_read and want_write
\* set, want_write exactly when `outgoing` is not empty, so the pollset
\* asks for reading or for writing, never both; none of the assertions on
\* the I/O path fails; and read() is called on a connection only when its
\* `outgoing` was empty.
C21_IntentMatchesOutgoing ==
    /\ failed \notin {"conn->want_read", "conn->want_write",
                      "outgoing.size() > 0"}
    /\ \A id \in DOMAIN conn :
          /\ conn[id].want_read # conn[id].want_write
          /\ conn[id].want_write <=> Len(conn[id].outgoing) > 0
    /\ \A i \in DOMAIN poll_args :
          /\ OneIntent(poll_args[i].events)
          /\ pc = "poll" =>
                ("POLLOUT" \in poll_args[i].events
                    <=> conn[fd2conn[poll_args[i].fd]].outgoing # << >>)
    /\ step.id # NULL /\ step.reads # << >> =>
          /\ step.before.want_read
          /\ ~step.before.want_write
          /\ step.before.outgoing = << >>
    /\ step.id # NULL /\ "POLLOUT" \in step.ready =>
          /\ step.before.want_write
          /\ step.before.outgoing # << >>

\* C21 witness: poll() is asked for POLLOUT only on a connection with
\* response bytes waiting, while requests its client sent wait unread
C21_Witness ==
    /\ pc = "poll"
    /\ \E i \in DOMAIN poll_args :
          /\ poll_args[i].events = {"POLLERR", "POLLOUT"}
          /\ sock[poll_args[i].fd].rx # << >>
          /\ conn[fd2conn[poll_args[i].fd]].outgoing # << >>
          /\ ~conn[fd2conn[poll_args[i].fd]].want_read

\* the Connections stored in the fd-to-Connection table
Stored == {fd2conn[i] : i \in DOMAIN fd2conn} \ {NULL}

\* C22: between the steps of the event loop the Connections linked on the
\* idle list are those stored in fd2conn, each on the list once and in one
\* slot; a Connection just accepted is in both, one just destroyed (in the
\* pass or by the timers) in neither.
C22_ListedIffStored ==
    /\ Range(idle_list) = Stored
    /\ Len(idle_list) = Cardinality(Stored)
    /\ \A i, j \in DOMAIN fd2conn :
          fd2conn[i] # NULL /\ fd2conn[i] = fd2conn[j] => i = j
    /\ \A id \in Destroyed : id \notin Range(idle_list) \cup Stored
    /\ \A id \in 1..(next_id - 1) :
          id \notin Destroyed => id \in Range(idle_list) \cap Stored
    /\ step.id # NULL =>
          IF step.destroy
          THEN step.id \notin Range(idle_list) \cup Stored
          ELSE step.id = idle_list[Len(idle_list)] /\ step.id \in Stored

\* C22 witness: of two Connections accepted the first has been destroyed;
\* the second alone is on the list and in the table
C22_Witness ==
    /\ Destroyed = {1}
    /\ idle_list = <<2>>
    /\ Stored = {2}

\* fewer than 4 + body_len bytes of a frame are buffered (body_len within
\* k_max_msg when the header is there)
Incomplete(incoming) ==
    \/ Len(incoming) < 4
    \/ /\ u32_at(incoming, 0) <= k_max_msg
       /\ Len(incoming) < 4 + u32_at(incoming, 0)

\* a whole frame is buffered and its body parses
CompleteFrame(incoming) ==
    /\ Len(incoming) >= 4
    /\ u32_at(incoming, 0) <= k_max_msg
    /\ Len(incoming) >= 4 + u32_at(incoming, 0)
    /\ parse_req(SubSeq(incoming, 5, 4 + u32_at(incoming, 0))).rv >= 0

\* C23: a try_one_request call on an incomplete frame returns false and
\* changes nothing (incoming, outgoing, want_close, keyspace); a call on a
\* complete frame dispatches that request once, appends its response and
\* removes the frame's 4 + body_len bytes, the next call starting from what
\* it left; and when the loop ends without want_close, `incoming` holds no
\* complete frame.
C23_FrameExecutedOnce ==
    \A i \in DOMAIN step.calls :
        LET k == step.calls[i]
        IN  /\ Incomplete(k.cin.incoming) =>
                  /\ ~k.ret
                  /\ k.cout = k.cin
                  /\ k.after = k.before
            /\ k.ret <=> CompleteFrame(k.cin.incoming)
            /\ k.ret =>
                  /\ k.cin.incoming = Frame(k.cmd) \o k.cout.incoming
                  /\ k.cout.incoming =
                         buf_consume(k.cin.incoming,
                                     4 + u32_at(k.cin.incoming, 0))
                  /\ k.cout.outgoing
                         = k.cin.outgoing
                               \o FrameOf(ReplyOf(k.before, k.cmd))
                  /\ k.after = do_request(k.before, k.cmd, << >>).db
                  /\ ~k.cout.want_close
                  /\ i < Len(step.calls)
                  /\ step.calls[i + 1].cin = k.cout
                  /\ step.calls[i + 1].before = k.after
            /\ i = Len(step.calls) =>
                  /\ ~k.ret
                  /\ ~k.cout.want_close => Incomplete(k.cout.incoming)
                  /\ step.id \in DOMAIN conn =>
                        conn[step.id].incoming = k.cout.incoming

\* C23 witness: a read completed a frame begun by an earlier read; it was
\* dispatched, and the bytes behind it, part of the next frame, stay
C23_Witness ==
    /\ step.id # NULL /\ step.id \in DOMAIN conn
    /\ Len(step.calls) = 2
    /\ step.before.incoming # << >>
    /\ step.calls[1].ret
    /\ step.calls[2].cin.incoming # << >>
    /\ Incomplete(step.calls[2].cin.incoming)
    /\ conn[step.id].incoming = step.calls[2].cin.incoming

=============================================================================
